---- MODULE Spec2Model ----
(***************************************************************************)
(* The product catalogue cache (services/products.service.js) and the      *)
(* in-memory query engine built on it (services/filter.service.js,         *)
(* services/search.service.js), as a state machine.                        *)
(*                                                                         *)
(* Strings whose characters matter (attribute options, filter values) are  *)
(* sequences of one-character strings.  A value that may be undefined or   *)
(* null is a sequence of length at most one: <<>> is undefined/null,       *)
(* <<v>> is the value v.                                                   *)
(***************************************************************************)
EXTENDS Integers, Sequences, FiniteSets, TLC

----------------------------------------------------------------------------
(* Bounds of the model *)

\* concurrent invocations of fetchAllProducts in flight at once
NumCalls == 2
\* the upstream returns at most this many non-empty pages to one fetch
MaxPages == 2

(* Program constants *)

CACHE_TTL == 86400

----------------------------------------------------------------------------
(* Data *)

None == <<>>
Some(v) == <<v>>

Range(f) == {f[i] : i \in DOMAIN f}

RECURSIVE Concat(_)
\* the concatenation of a sequence of sequences
Concat(ss) == IF ss = <<>> THEN <<>> ELSE Head(ss) \o Concat(Tail(ss))

\* Raw upstream product records (a WooCommerce product, the fields the
\* transformer reads).  categories, attributes, date_created and price may be
\* absent.  The upstream's i-th product:
RawProduct(i) ==
  IF i % 2 = 1
  THEN [id |-> i, name |-> <<"A", "b">>, slug |-> <<"a", "b">>,
        date_created |-> Some(400 + i), price |-> Some(7),
        categories |-> Some(<<[id |-> 5, slug |-> <<"t">>],
                              [id |-> 12, slug |-> <<"m">>]>>),
        attributes |-> Some(<<[slug |-> "pa_colour",
                               options |-> << <<"A", " ", "b">> >>]>>),
        images |-> Some(<<[id |-> 10 * i + 1], [id |-> 10 * i + 2]>>)]
  ELSE [id |-> i, name |-> <<"b">>, slug |-> <<"b">>,
        date_created |-> None, price |-> None,
        categories |-> None,
        attributes |-> None,
        images |-> None]

\* what the request for page `page` can return: the products of that page (a
\* page holds one product here), or nothing when the catalogue ends before it
Pages(page) == {<<>>, <<RawProduct(page)>>}

\* transformProducts: the projection of one raw record; an absent list
\* (product.categories || []) becomes the empty list
transformProduct(product) ==
  [id |-> product.id,
   name |-> product.name,
   slug |-> product.slug,
   date_created |-> product.date_created,
   price |-> product.price,
   categories |-> IF product.categories = None THEN Some(<<>>) ELSE product.categories,
   attributes |-> IF product.attributes = None THEN Some(<<>>) ELSE product.attributes,
   images |-> IF product.images = None THEN Some(<<>>) ELSE product.images]

transformProducts(products) ==
  [i \in DOMAIN products |-> transformProduct(products[i])]

\* JSON.stringify of a transformed catalogue: the text keeps, per item, the
\* properties that are defined; a property that is undefined is dropped.
JSONStringify(items) ==
  [i \in DOMAIN items |->
     [id |-> items[i].id, name |-> items[i].name, slug |-> items[i].slug,
      date_created |-> items[i].date_created, price |-> items[i].price,
      categories |-> items[i].categories, attributes |-> items[i].attributes,
      images |-> items[i].images]]

\* JSON.parse of such a text: a dropped property reads as undefined again
JSONParse(text) ==
  [i \in DOMAIN text |->
     [id |-> text[i].id, name |-> text[i].name, slug |-> text[i].slug,
      date_created |-> text[i].date_created, price |-> text[i].price,
      categories |-> text[i].categories, attributes |-> text[i].attributes,
      images |-> text[i].images]]

----------------------------------------------------------------------------
(* State *)

VARIABLES
  redis,     \* the value under CACHE_KEY: None, or Some([json, ttl])
  call,      \* per invocation of fetchAllProducts: its position and locals
  origin,    \* history: the page responses read by the fetch whose write is stored
  fresh,     \* history: a fetch that stored its result has returned, and the
             \* key has not expired or been deleted since
  returned,  \* history: a fetch that ran without a fault has returned, and the
             \* key has not expired or been deleted since
  svc,       \* the query-service request being served: its arguments and result
  fin,       \* the arguments of a getFilteredProducts evaluation
  fout,      \* its result, once evaluated
  popular,   \* the value under "products:popular" and the invocation of
             \* fetchPopularProducts
  facets,    \* the invocation of fetchFilterOptions
  options,   \* the value under "filter:options" and the invocation of
             \* getFilterOptions
  catg,      \* the values under the "category:" keys, and the invocations of
             \* fetchCategoryBySlug and cacheAllCategoriesOnStart
  server,    \* the position of startServer
  lineage    \* the upstream catalogue: its version and whether its pagination
             \* advances; and history: when the fetch whose write the key
             \* holds started and first read

vars ==
  <<redis, call, origin, fresh, returned, svc, fin, lineage, fout, popular, facets,
    options, catg, server>>

\* what the cache's own steps leave alone
others == <<svc, fin, lineage, fout, popular, facets, options, catg, server>>

Procs == 1 .. NumCalls

\* an invocation that has not started.  pc, forceRefresh, allProducts, page,
\* status and value are the program's; the other fields are history:
\*   reqs      upstream page requests this invocation has issued
\*   asked     the parameters of these requests, in order
\*   trace     the page responses it has received, in order
\*   read      how its read of the key ended ("none" before / without one)
\*   seen      what the key held when it was read
\*   wasFresh, wasReturned   fresh and returned at the time of the read
\*   fault     which await threw, if one did
\*   live      its fetch ran to the end without a fault, and the key has not
\*             expired or been deleted since
\*   stored    it wrote the key, and the key has not expired or been deleted since
\*   startedAt the version of the upstream catalogue when it started
\*   readAt    the version when its first page was answered: the oldest
\*             version its data was read at (0 before)
Idle ==
  [pc |-> "idle", forceRefresh |-> FALSE, allProducts |-> <<>>, page |-> 1,
   status |-> "none", value |-> <<>>,
   reqs |-> 0, asked |-> <<>>, trace |-> <<>>, read |-> "none", seen |-> None,
   wasFresh |-> FALSE, wasReturned |-> FALSE, fault |-> "none",
   live |-> FALSE, stored |-> FALSE, startedAt |-> 0, readAt |-> 0]

\* the cache when the process has started: server.js line 37 has flushed it
CacheInit ==
  /\ redis = None
  /\ call = [p \in Procs |-> Idle]
  /\ origin = None
  /\ fresh = FALSE
  /\ returned = FALSE

NoRequest == [op |-> "none"]
NoInput == <<>>

\* fetchPopularProducts not called, nothing under its key.  pc, forceRefresh,
\* products, status and value are the program's; read, seen and fault are
\* history, as in Idle; size is the size of the upstream catalogue the last
\* response was cut from
PopularIdle ==
  [store |-> None, pc |-> "idle", forceRefresh |-> FALSE, products |-> <<>>,
   status |-> "none", value |-> <<>>,
   read |-> "none", seen |-> None, fault |-> "none", size |-> 0]

\* filter.wp.js line 27: the attribute slugs the facets are built for
ATTRIBUTES == <<"pa_material", "pa_room-type-usage", "pa_colour", "pa_finish">>

\* fetchFilterOptions not called.  pc, allAttributes (the slugs the upstream
\* defines), slot (the position in ATTRIBUTES the loop is at), results (per
\* slug: no entry yet, or its list), status and value are the program's;
\* fetched (per slug, the list a term request returned) and failed (the slugs
\* whose lookup failed) are history, and so is fault (which request threw)
FacetsIdle ==
  [pc |-> "idle", allAttributes |-> {}, slot |-> 1,
   results |-> [slug \in Range(ATTRIBUTES) |-> None],
   status |-> "none", value |-> [slug \in Range(ATTRIBUTES) |-> <<>>],
   fetched |-> [slug \in Range(ATTRIBUTES) |-> None], failed |-> {},
   fault |-> "none"]

\* the facet set with no option for any attribute
NoFacets == [slug \in Range(ATTRIBUTES) |-> <<>>]

\* getFilterOptions not called, nothing under its key.  pc, forceRefresh,
\* data, status and value are the program's; read and seen are history, as
\* in Idle; upstream is how the upstream fetch of this invocation ended
OptionsIdle ==
  [store |-> None, pc |-> "idle", forceRefresh |-> FALSE, data |-> NoFacets,
   status |-> "none", value |-> NoFacets,
   read |-> "none", seen |-> None, fault |-> "none", upstream |-> "none"]

\* the category slugs of the model
CategorySlugs == {"t", "m"}

\* fetchCategoryBySlug not called.  pc, slug, category, status and value
\* (None for null) are the program's; reqs, read, seen and fault are history,
\* as in Idle
LookupIdle ==
  [pc |-> "idle", slug |-> "t", category |-> None, status |-> "none",
   value |-> None, reqs |-> 0, read |-> "none", seen |-> None, fault |-> "none"]

\* cacheAllCategoriesOnStart not called.  pc, forceRefresh, page, processedIds
\* and data (the page whose pipeline is being executed) are the program's;
\* status is how it ended
WarmupIdle ==
  [pc |-> "idle", forceRefresh |-> FALSE, page |-> 1, processedIds |-> {},
   data |-> <<>>, status |-> "none"]

\* fetchAllCategories not called.  keys is what KEYS returned; warm is
\* history: the processedIds of the forced warm-up that had ended without
\* an error when the keys were read, if there was one
ListingIdle ==
  [pc |-> "idle", keys |-> {}, status |-> "none", value |-> {}, fault |-> "none",
   warm |-> None]

\* no category stored, no category function called: store is the value under
\* each "category:<slug>" key, lk the invocation of fetchCategoryBySlug, wu
\* the invocation of cacheAllCategoriesOnStart, all the invocation of
\* fetchAllCategories
CatsIdle ==
  [store |-> [slug \in CategorySlugs |-> None], lk |-> LookupIdle,
   wu |-> WarmupIdle, all |-> ListingIdle]

\* startServer not called; menu is the position of cacheMenuOnStart
ServerIdle == [pc |-> "idle", menu |-> "idle"]

\* the upstream catalogue is at its first version and its pagination
\* advances; the key holds no write
LineageInit == [version |-> 1, held |-> None, paging |-> "advancing"]

SideInit ==
  /\ lineage = LineageInit
  /\ popular = PopularIdle
  /\ facets = FacetsIdle
  /\ options = OptionsIdle
  /\ catg = CatsIdle
  /\ server = ServerIdle

Init ==
  /\ CacheInit
  /\ svc = NoRequest
  /\ fin = NoInput
  /\ fout = None
  /\ SideInit

----------------------------------------------------------------------------
(* fetchAllProducts, one action per stretch of code between two awaits *)

cacheHit_never(forceRefresh, cachedData) == FALSE

\* line 16-18: the cached value is returned when no refresh is forced and the
\* key holds a (non-empty) string
cacheHit(forceRefresh, cachedData) == ~forceRefresh /\ cachedData # None

shouldStore_always(transformedData) == Len(transformedData) >= 0

\* line 57: only a non-empty catalogue is written
shouldStore(transformedData) == Len(transformedData) > 0

redisSetValue_lost(stored, transformedData) == stored

redisSetValue_merge(stored, transformedData) ==
  Some([json |-> JSONStringify((IF stored = None THEN <<>> ELSE JSONParse(stored[1].json))
                               \o transformedData),
        ttl |-> CACHE_TTL])

\* line 58-63: SET key json EX ttl replaces whatever the key held
redisSetValue(stored, transformedData) ==
  Some([json |-> JSONStringify(transformedData), ttl |-> CACHE_TTL])

catchResult_rethrow == [status |-> "raised", value |-> <<>>]

\* line 68-72: the catch block logs and returns [] ...
catchResult == [status |-> "ok", value |-> <<>>]

catchStore_clear(stored, allProducts) == None

catchStore_partial(stored, allProducts) ==
  IF allProducts = <<>> THEN stored
  ELSE Some([json |-> JSONStringify(transformProducts(allProducts)), ttl |-> CACHE_TTL])

\* ... and writes nothing: the key holds after it what it held before
catchStore(stored, allProducts) == stored

\* the call ends: fetchAllProducts' promise settles with (status, value)
Settle(c, status, value) ==
  [c EXCEPT !.pc = "done", !.status = status, !.value = value]

pageRequest_anyStatus(page) == [per_page |-> 100, page |-> page, status |-> "any"]

\* line 35-39: the parameters of a page request
pageRequest(page) == [per_page |-> 100, page |-> page, status |-> "publish"]

\* the first page request goes out (line 29-35)
StartFetch(c) ==
  [c EXCEPT !.pc = "fetch", !.allProducts = <<>>, !.page = 1, !.reqs = @ + 1,
            !.asked = Append(@, pageRequest(1))]

\* line 13-17 / 24-35: the call starts; it awaits the key's value unless a
\* refresh is forced, in which case it requests page 1 at once
Begin(p, forceRefresh) ==
  /\ call[p].pc = "idle"
  /\ LET c == [call[p] EXCEPT !.forceRefresh = forceRefresh,
                              !.startedAt = lineage.version]
     IN  call' = [call EXCEPT ![p] =
                    IF forceRefresh THEN StartFetch(c)
                    ELSE [c EXCEPT !.pc = "get"]]
  /\ UNCHANGED <<redis, origin, fresh, returned>>

\* a direct call: server.js line 17 (forced), or any reader of the catalogue
fetchAllProducts(p, forceRefresh) ==
  /\ Begin(p, forceRefresh)
  /\ UNCHANGED others

\* line 17-22 (then 24-35): redisClient.get resolves
redisGet(p) ==
  /\ call[p].pc = "get"
  /\ LET cachedData == redis
         c == [call[p] EXCEPT !.read = "ok", !.seen = cachedData,
                              !.wasFresh = fresh, !.wasReturned = returned]
     IN  call' = [call EXCEPT ![p] =
                    IF cacheHit(c.forceRefresh, cachedData)
                    THEN Settle(c, "ok", JSONParse(cachedData[1].json))
                    ELSE StartFetch(c)]
  /\ UNCHANGED <<redis, origin, fresh, returned, others>>

\* line 17, 68-72: redisClient.get rejects
redisGetError(p) ==
  /\ call[p].pc = "get"
  /\ LET c == [call[p] EXCEPT !.read = "error", !.fault = "get"]
     IN  call' = [call EXCEPT ![p] = Settle(c, catchResult.status, catchResult.value)]
  /\ redis' = catchStore(redis, call[p].allProducts)
  /\ UNCHANGED <<origin, fresh, returned, others>>

pageEnds_orRepeats(allProducts, products) ==
  \/ Len(products) = 0
  \/ \E i \in DOMAIN allProducts : allProducts[i].id = products[1].id

\* line 43: the loop ends at a page without products, and at nothing else
pageEnds(allProducts, products) == Len(products) = 0

\* line 41-66: the invocation after one page has been answered
Answered(c0, products) ==
  LET c == [c0 EXCEPT !.trace = Append(@, products),
                      !.readAt = IF @ = 0 THEN lineage.version ELSE @]
      transformedData == transformProducts(c.allProducts)
  IN  IF pageEnds(c.allProducts, products)
      THEN IF shouldStore(transformedData)
           THEN [c EXCEPT !.pc = "set"]
           ELSE Settle([c EXCEPT !.live = TRUE], "ok", transformedData)
      ELSE [c EXCEPT !.allProducts = @ \o products,
                     !.page = @ + 1, !.reqs = @ + 1,
                     !.asked = Append(@, pageRequest(c.page + 1))]

\* line 35-66: wcApi.get resolves with one page
wcApiGet(p, products) ==
  /\ call[p].pc = "fetch"
  /\ call[p].page > MaxPages => products = <<>>
  /\ call' = [call EXCEPT ![p] = Answered(call[p], products)]
  /\ UNCHANGED <<redis, origin, fresh, returned, others>>

\* line 35, 68-72: wcApi.get rejects
wcApiGetError(p) ==
  /\ call[p].pc = "fetch"
  /\ LET c == [call[p] EXCEPT !.fault = "upstream"]
     IN  call' = [call EXCEPT ![p] = Settle(c, catchResult.status, catchResult.value)]
  /\ redis' = catchStore(redis, call[p].allProducts)
  /\ UNCHANGED <<origin, fresh, returned, others>>

\* when a fetch started and what version it first read
TagsOf(c) == [startedAt |-> c.startedAt, readAt |-> c.readAt]

overwrites_ifNewer(held, tags) == held = None \/ held[1].readAt <= tags.readAt

\* line 58-63: the SET is unconditional: nothing compares the fetch with the
\* one whose data the key holds
overwrites(held, tags) == TRUE

\* line 58-66: redisClient.set resolves
Store(p) ==
  /\ call[p].pc = "set"
  /\ LET transformedData == transformProducts(call[p].allProducts)
     IN  /\ redis' = IF overwrites(IF redis = None THEN None ELSE lineage.held,
                                   TagsOf(call[p]))
                      THEN redisSetValue(redis, transformedData)
                      ELSE redis
         /\ call' = [call EXCEPT ![p] =
                       Settle([@ EXCEPT !.live = TRUE, !.stored = TRUE],
                              "ok", transformedData)]
  /\ origin' = Some(call[p].trace)
  /\ UNCHANGED <<fresh, returned>>

redisSet(p) ==
  /\ Store(p)
  /\ UNCHANGED others

\* line 58, 68-72: redisClient.set rejects
redisSetError(p) ==
  /\ call[p].pc = "set"
  /\ LET c == [call[p] EXCEPT !.fault = "set"]
     IN  call' = [call EXCEPT ![p] = Settle(c, catchResult.status, catchResult.value)]
  /\ redis' = catchStore(redis, call[p].allProducts)
  /\ UNCHANGED <<origin, fresh, returned, others>>

\* the caller consumes the settled promise; the invocation slot is free again
End(p) ==
  /\ call[p].pc = "done"
  /\ call' = [call EXCEPT ![p] = Idle]
  /\ fresh' = (fresh \/ call[p].stored)
  /\ returned' = (returned \/ call[p].live)
  /\ UNCHANGED <<redis, origin>>

\* a direct call returns to its caller
Return(p) ==
  /\ End(p)
  /\ UNCHANGED others

\* the key is gone
Forget ==
  /\ redis' = None
  /\ origin' = None
  /\ fresh' = FALSE
  /\ returned' = FALSE
  /\ call' = [p \in Procs |-> [call[p] EXCEPT !.live = FALSE, !.stored = FALSE]]
  /\ UNCHANGED others

\* the key's TTL runs out (EX CACHE_TTL)
Expire ==
  /\ redis # None
  /\ Forget

\* server.js line 37: redisClient.flushall(); clear-cache.js line 26-28
flushall == Forget

Next ==
  \/ \E p \in Procs, forceRefresh \in BOOLEAN : fetchAllProducts(p, forceRefresh)
  \/ \E p \in Procs : redisGet(p)
  \/ \E p \in Procs : redisGetError(p)
  \/ \E p \in Procs : \E products \in Pages(call[p].page) : wcApiGet(p, products)
  \/ \E p \in Procs : wcApiGetError(p)
  \/ \E p \in Procs : redisSet(p)
  \/ \E p \in Procs : redisSetError(p)
  \/ \E p \in Procs : Return(p)
  \/ Expire
  \/ flushall

Spec == Init /\ [][Next]_vars

\* the store answers every read, by a value or by an error; nothing is assumed
\* of the upstream, whose answer to a page request may never come
SpecReads ==
  Init /\ [][Next]_vars /\ \A p \in Procs : WF_vars(redisGet(p) \/ redisGetError(p))

----------------------------------------------------------------------------
(* Strings, as JavaScript computes on them *)

\* String.prototype.toLowerCase, on the letters of the model
LowerChar(c) ==
  CASE c = "A" -> "a" [] c = "B" -> "b" [] c = "M" -> "m" [] c = "T" -> "t"
    [] OTHER -> c
toLowerCase(str) == [i \in DOMAIN str |-> LowerChar(str[i])]

\* what \s matches
IsSpace(c) == c = " "

RECURSIVE TrimStart(_)
TrimStart(str) ==
  IF str # <<>> /\ IsSpace(Head(str)) THEN TrimStart(Tail(str)) ELSE str

RECURSIVE TrimEnd(_)
TrimEnd(str) ==
  IF str # <<>> /\ IsSpace(str[Len(str)])
  THEN TrimEnd(SubSeq(str, 1, Len(str) - 1)) ELSE str

\* String.prototype.trim
trim(str) == TrimEnd(TrimStart(str))

RECURSIVE SplitFrom(_, _, _)
\* the pieces of str between separators, given the piece read so far
SplitFrom(str, sep, piece) ==
  IF str = <<>> THEN <<piece>>
  ELSE IF Head(str) = sep THEN <<piece>> \o SplitFrom(Tail(str), sep, <<>>)
  ELSE SplitFrom(Tail(str), sep, Append(piece, Head(str)))

\* String.prototype.split(sep) for a one-character separator: "" gives [""]
split(str, sep) == SplitFrom(str, sep, <<>>)

RECURSIVE ReplaceSpaces(_, _)
\* str.replace(/\s+/g, '-'): every maximal run of whitespace becomes one hyphen
ReplaceSpaces(str, inRun) ==
  IF str = <<>> THEN <<>>
  ELSE IF IsSpace(Head(str))
       THEN (IF inRun THEN <<>> ELSE <<"-">>) \o ReplaceSpaces(Tail(str), TRUE)
       ELSE <<Head(str)>> \o ReplaceSpaces(Tail(str), FALSE)

\* Array.prototype.includes
includes(array, x) == \E i \in DOMAIN array : array[i] = x

\* Array.prototype.filter: the elements at the kept positions, in order
RECURSIVE FilterSeq(_, _)
FilterSeq(array, keep) ==
  IF array = <<>> THEN <<>>
  ELSE (IF Head(array) \in keep THEN <<Head(array)>> ELSE <<>>)
       \o FilterSeq(Tail(array), keep)

----------------------------------------------------------------------------
(* Numbers: an integer, or what a division by zero leaves *)

Num(n) == [kind |-> "num", n |-> n]
NaN == [kind |-> "NaN", n |-> 0]
Infinity == [kind |-> "Infinity", n |-> 0]

\* Math.ceil(total / size) for a total >= 0
MathCeilDiv(total, size) ==
  IF size = 0 THEN (IF total = 0 THEN NaN ELSE Infinity)
  ELSE IF size > 0 THEN Num((total + size - 1) \div size)
  ELSE Num(-(total \div (-size)))

Min(a, b) == IF a < b THEN a ELSE b
Max(a, b) == IF a > b THEN a ELSE b

slice_inclusive(array, start, end) ==
  LET len == Len(array)
      k == IF start < 0 THEN Max(len + start, 0) ELSE Min(start, len)
      final == IF end + 1 < 0 THEN Max(len + end + 1, 0) ELSE Min(end + 1, len)
  IN  SubSeq(array, k + 1, final)

\* Array.prototype.slice(start, end): a negative index counts from the end
slice(array, start, end) ==
  LET len == Len(array)
      k == IF start < 0 THEN Max(len + start, 0) ELSE Min(start, len)
      final == IF end < 0 THEN Max(len + end, 0) ELSE Min(end, len)
  IN  SubSeq(array, k + 1, final)

----------------------------------------------------------------------------
(* Sorting *)

\* the numeric value of a price field: parseFloat(p.price || 0)
getPrice(p) == IF p.price = None THEN 0 ELSE p.price[1]

Sign(n) == IF n < 0 THEN -1 ELSE IF n > 0 THEN 1 ELSE 0

RECURSIVE ComparePrimary(_, _)
\* two strings letter by letter, case and nothing else ignored
ComparePrimary(a, b) ==
  LET rank(c) == CASE c = " " -> 1 [] c = "," -> 2 [] c = "-" -> 3
                   [] LowerChar(c) = "a" -> 4 [] LowerChar(c) = "b" -> 5
                   [] OTHER -> 6
  IN  IF a = <<>> /\ b = <<>> THEN 0
      ELSE IF a = <<>> THEN -1
      ELSE IF b = <<>> THEN 1
      ELSE IF rank(Head(a)) # rank(Head(b)) THEN Sign(rank(Head(a)) - rank(Head(b)))
      ELSE ComparePrimary(Tail(a), Tail(b))

RECURSIVE CompareCase(_, _)
\* equal but for case: at the first difference lower case comes first
CompareCase(a, b) ==
  IF a = <<>> \/ b = <<>> THEN 0
  ELSE IF Head(a) = Head(b) THEN CompareCase(Tail(a), Tail(b))
  ELSE IF LowerChar(Head(a)) = Head(a) THEN -1 ELSE 1

\* String.prototype.localeCompare
localeCompare(a, b) ==
  IF ComparePrimary(a, b) # 0 THEN ComparePrimary(a, b) ELSE CompareCase(a, b)

\* new Date(a.date_created) - new Date(b.date_created): NaN when a date is
\* missing, and a comparator's NaN counts as 0
dateDifference(a, b) ==
  IF a.date_created = None \/ b.date_created = None THEN 0
  ELSE a.date_created[1] - b.date_created[1]

filterComparator_descOnly(orderby, order, a, b) ==
  LET comparison ==
        CASE orderby = "price" -> getPrice(a) - getPrice(b)
          [] orderby = "title" -> localeCompare(a.name, b.name)
          [] OTHER -> dateDifference(a, b)
  IN  IF order = "desc" THEN comparison * (-1) ELSE comparison

\* filter.service.js line 69-88: the comparator of the filter endpoint
filterComparator(orderby, order, a, b) ==
  LET comparison ==
        CASE orderby = "price" -> getPrice(a) - getPrice(b)
          [] orderby = "title" -> localeCompare(a.name, b.name)
          [] OTHER -> dateDifference(a, b)
  IN  IF order = "asc" THEN comparison ELSE comparison * (-1)

categoryComparator_noAlias(orderby, order, a, b) ==
  LET comparison ==
        CASE orderby = "price" -> getPrice(a) - getPrice(b)
          [] orderby = "title" -> localeCompare(a.name, b.name)
          [] OTHER -> dateDifference(a, b)
  IN  IF order = "desc" THEN comparison * (-1) ELSE comparison

\* products.service.js line 254-283: the comparator of the category listing
categoryComparator(orderby, order, a, b) ==
  LET comparison ==
        CASE orderby = "price" -> getPrice(a) - getPrice(b)
          [] orderby \in {"title", "name"} -> localeCompare(a.name, b.name)
          [] OTHER -> dateDifference(a, b)
  IN  IF order = "desc" THEN comparison * (-1) ELSE comparison

\* String.prototype.startsWith
startsWith(str, prefix) ==
  Len(prefix) <= Len(str) /\ SubSeq(str, 1, Len(prefix)) = prefix

\* String.prototype.includes
includesText(str, part) ==
  \E i \in 1 .. Len(str) - Len(part) + 1 : SubSeq(str, i, i + Len(part) - 1) = part

searchComparator_alphabetical(searchTerm, a, b) ==
  localeCompare(toLowerCase(a.name), toLowerCase(b.name))

\* search.service.js line 205-221: the relevance comparator
searchComparator(searchTerm, a, b) ==
  LET aName == toLowerCase(a.name)
      bName == toLowerCase(b.name)
      aStarts == startsWith(aName, searchTerm)
      bStarts == startsWith(bName, searchTerm)
  IN  IF aName = searchTerm THEN -1
      ELSE IF bName = searchTerm THEN 1
      ELSE IF aStarts /\ ~bStarts THEN -1
      ELSE IF bStarts /\ ~aStarts THEN 1
      ELSE localeCompare(aName, bName)

\* products.service.js line 431-433: newest first
newArrivalsComparator(a, b) == dateDifference(b, a)

\* the comparator a sort runs with
Compare(by, a, b) ==
  CASE by.kind = "filter" -> filterComparator(by.orderby, by.order, a, b)
    [] by.kind = "category" -> categoryComparator(by.orderby, by.order, a, b)
    [] by.kind = "search" -> searchComparator(by.searchTerm, a, b)
    [] by.kind = "newArrivals" -> newArrivalsComparator(a, b)

RECURSIVE InsertSorted(_, _, _)
\* x put into the sorted array, after every element that does not sort after it
InsertSorted(sorted, x, by) ==
  IF sorted = <<>> THEN <<x>>
  ELSE IF Compare(by, sorted[Len(sorted)], x) > 0
       THEN Append(InsertSorted(SubSeq(sorted, 1, Len(sorted) - 1), x, by),
                   sorted[Len(sorted)])
       ELSE Append(sorted, x)

RECURSIVE SortFrom(_, _, _)
SortFrom(sorted, rest, by) ==
  IF rest = <<>> THEN sorted
  ELSE SortFrom(InsertSorted(sorted, Head(rest), by), Tail(rest), by)

\* Array.prototype.sort(comparator): a stable insertion sort
sort(array, by) == SortFrom(<<>>, array, by)

----------------------------------------------------------------------------
(* getFilteredProducts: filter.service.js line 15-105 *)

ALLOWED_FILTERS == {"pa_material", "pa_room-type-usage", "pa_colour", "pa_finish"}

\* line 35-36: an entry that is no filter: a key outside the allow-list, or a
\* falsy value
isIgnored_keyOnly(filterKey, filterValue) == filterKey \notin ALLOWED_FILTERS

isIgnored_valueOnly(filterKey, filterValue) == filterValue = <<>>

isIgnored(filterKey, filterValue) ==
  \/ filterKey \notin ALLOWED_FILTERS
  \/ filterValue = <<>>

\* line 41: the requested options of one value
requestedOptionsOf(filterValue) ==
  LET parts == split(filterValue, ",")
  IN  [i \in DOMAIN parts |-> toLowerCase(trim(parts[i]))]

\* line 44: product.attributes.find(attr => attr.slug === filterKey)
findAttr(product, filterKey) ==
  LET attrs == product.attributes[1]
      hits == {i \in DOMAIN attrs : attrs[i].slug = filterKey}
  IN  IF hits = {} THEN None
      ELSE Some(attrs[CHOOSE i \in hits : \A j \in hits : i <= j])

optionMatches_exactOnly(requestedOptions, optionName) ==
  includes(requestedOptions, toLowerCase(optionName))

\* line 51-62: one option against the requested ones
optionMatches(requestedOptions, optionName) ==
  LET normalizedName == toLowerCase(optionName)
      slugifiedName == ReplaceSpaces(normalizedName, FALSE)
  IN  \/ includes(requestedOptions, normalizedName)
      \/ includes(requestedOptions, slugifiedName)

missingAttr_passes == TRUE

\* line 47: a product without the attribute is rejected
missingAttr == FALSE

\* line 32-65: one entry of the query against one product
passesEntry(product, filterKey, filterValue) ==
  IF isIgnored(filterKey, filterValue) THEN TRUE
  ELSE LET requestedOptions == requestedOptionsOf(filterValue)
           productAttr == findAttr(product, filterKey)
       IN  IF productAttr = None THEN missingAttr
           ELSE \E i \in DOMAIN productAttr[1].options :
                  optionMatches(requestedOptions, productAttr[1].options[i])

passesAll_any(product, attributes) ==
  \E e \in DOMAIN attributes : passesEntry(product, attributes[e][1], attributes[e][2])

\* line 32: Object.entries(attributes).every(...)
passesAll(product, attributes) ==
  \A e \in DOMAIN attributes : passesEntry(product, attributes[e][1], attributes[e][2])

\* line 19-104, on the catalogue fetchAllProducts returned.  queryFilters is
\* [page, per_page, orderby, order, attributes]; attributes are the remaining
\* entries <<key, value>> of the query, in order
getFilteredProducts(allProducts, queryFilters) ==
  LET attributes == queryFilters.attributes
      filteredProducts ==
        FilterSeq(allProducts, {product \in Range(allProducts) :
                                   passesAll(product, attributes)})
      sortedProducts ==
        sort(filteredProducts, [kind |-> "filter", orderby |-> queryFilters.orderby,
                                order |-> queryFilters.order])
      totalProducts == Len(sortedProducts)
      totalPages == MathCeilDiv(totalProducts, queryFilters.per_page)
      startIndex == (queryFilters.page - 1) * queryFilters.per_page
      paginatedProducts ==
        slice(sortedProducts, startIndex, startIndex + queryFilters.per_page)
  IN  [status |-> "ok",
       products |-> paginatedProducts,
       totalProducts |-> totalProducts,
       totalPages |-> totalPages,
       page |-> queryFilters.page,
       per_page |-> queryFilters.per_page]

----------------------------------------------------------------------------
(* The other query modes, on the catalogue fetchAllProducts returned *)

\* a number against a page count: nothing is below NaN
LessThan(n, count) ==
  count.kind = "Infinity" \/ (count.kind = "num" /\ n < count.n)

inCategory_first(product, categoryId) ==
  /\ product.categories[1] # <<>>
  /\ product.categories[1][1].id = categoryId

\* products.service.js line 249: product.categories.some(cat => cat.id == categoryId)
inCategory(product, categoryId) ==
  \E i \in DOMAIN product.categories[1] : product.categories[1][i].id = categoryId

\* products.service.js line 242-303
fetchProductsByCategory(allProducts, args) ==
  LET categoryProducts ==
        FilterSeq(allProducts,
                  {product \in Range(allProducts) : inCategory(product, args.categoryId)})
      sortedProducts ==
        sort(categoryProducts, [kind |-> "category", orderby |-> args.orderby,
                                order |-> args.order])
      totalProducts == Len(sortedProducts)
      totalPages == MathCeilDiv(totalProducts, args.perPage)
      startIndex == (args.page - 1) * args.perPage
      endIndex == startIndex + args.perPage
  IN  [status |-> "ok",
       products |-> slice(sortedProducts, startIndex, endIndex),
       totalProducts |-> totalProducts,
       totalPages |-> totalPages]

\* search.service.js line 253-262
emptyResponse(per_page) ==
  [status |-> "ok",
   data |-> <<>>,
   meta |-> [current_page |-> 1, per_page |-> per_page, total_pages |-> Num(0),
             total_products |-> 0, search_query |-> <<>>]]

\* search.service.js line 166: !q || q.trim().length === 0
blankQuery(q) == q = None \/ Len(trim(q[1])) = 0

textMatch_nameOnly(product, searchTerm) ==
  includesText(toLowerCase(product.name), searchTerm)

\* search.service.js line 185-188: nameMatch || slugMatch
textMatch(product, searchTerm) ==
  LET nameMatch == includesText(toLowerCase(product.name), searchTerm)
      slugMatch == includesText(product.slug, searchTerm)
  IN  nameMatch \/ slugMatch

\* search.service.js line 170-243, past the validation
searchProducts(allProducts, query) ==
  LET searchTerm == toLowerCase(trim(query.q[1]))
      categorySlug == IF query.category = None \/ query.category[1] = <<>> THEN None
                      ELSE Some(toLowerCase(trim(query.category[1])))
      matches(product) ==
        LET isTextMatch == textMatch(product, searchTerm)
        IN  IF categorySlug # None /\ categorySlug[1] # <<>> /\ isTextMatch
            THEN \E i \in DOMAIN product.categories[1] :
                   toLowerCase(product.categories[1][i].slug) = categorySlug[1]
            ELSE isTextMatch
      filteredProducts ==
        FilterSeq(allProducts, {product \in Range(allProducts) : matches(product)})
      sortedProducts == sort(filteredProducts, [kind |-> "search", searchTerm |-> searchTerm])
      totalProducts == Len(sortedProducts)
      totalPages == MathCeilDiv(totalProducts, query.per_page)
      startIndex == (query.page - 1) * query.per_page
      paginatedProducts == slice(sortedProducts, startIndex, startIndex + query.per_page)
  IN  [status |-> "ok",
       data |-> transformProducts(paginatedProducts),
       meta |-> [current_page |-> query.page, per_page |-> query.per_page,
                 total_pages |-> totalPages, total_products |-> totalProducts,
                 has_next_page |-> LessThan(query.page, totalPages),
                 has_prev_page |-> query.page > 1,
                 search_query |-> trim(query.q[1]),
                 category |-> IF query.category = None \/ query.category[1] = <<>>
                              THEN None ELSE query.category]]

\* days before the first of each month, and the day number of a date [y, m, d];
\* a day past the end of its month runs over into the next, as Date does
MonthStart == <<0, 31, 59, 90, 120, 151, 181, 212, 243, 273, 304, 334>>
DayNumber(date) == 365 * date.y + MonthStart[date.m] + date.d

\* products.service.js line 410-411: twoMonthsAgo.setMonth(getMonth() - 2)
twoMonthsAgo(now) ==
  IF now.m > 2 THEN [now EXCEPT !.m = @ - 2]
  ELSE [y |-> now.y - 1, m |-> now.m + 10, d |-> now.d]

isRecent_strict(product, thresholdTime) ==
  /\ product.date_created # None
  /\ product.date_created[1] > thresholdTime

\* products.service.js line 420-426: the filter callback of fetchNewArrivals
isRecent(product, thresholdTime) ==
  /\ product.date_created # None
  /\ product.date_created[1] >= thresholdTime

\* products.service.js line 407-450
fetchNewArrivals(allProducts, args) ==
  LET thresholdTime == DayNumber(twoMonthsAgo(args.now))
      recentProducts ==
        FilterSeq(allProducts,
                  {product \in Range(allProducts) : isRecent(product, thresholdTime)})
      sorted == sort(recentProducts, [kind |-> "newArrivals"])
      totalProducts == Len(sorted)
      totalPages == MathCeilDiv(totalProducts, args.perPage)
      startIndex == (args.page - 1) * args.perPage
  IN  [status |-> "ok",
       products |-> slice(sorted, startIndex, startIndex + args.perPage),
       totalProducts |-> totalProducts,
       totalPages |-> totalPages,
       page |-> args.page,
       per_page |-> args.perPage]

\* products.service.js line 452-461: the catch block of fetchNewArrivals
newArrivalsFallback(args) ==
  [status |-> "ok", products |-> <<>>, totalProducts |-> 0, totalPages |-> Num(0),
   page |-> args.page, per_page |-> args.perPage]

Raised == [status |-> "raised"]

\* what a service makes of the settled fetchAllProducts call: the two with a
\* try/catch fall back when it raised; the two without let the error through
serviceResult(op, args, status, allProducts) ==
  CASE op = "category" ->
         IF status = "raised" THEN Raised ELSE fetchProductsByCategory(allProducts, args)
    [] op = "filter" ->
         IF status = "raised" THEN Raised ELSE getFilteredProducts(allProducts, args)
    [] op = "search" ->
         IF status = "raised" THEN emptyResponse(args.per_page)
         ELSE searchProducts(allProducts, args)
    [] op = "newArrivals" ->
         IF status = "raised" THEN newArrivalsFallback(args)
         ELSE fetchNewArrivals(allProducts, args)

----------------------------------------------------------------------------
(* One request at a time through a query service *)

\* page sizes a request may ask for: 0 .. MaxPageSize
MaxPageSize == 2

\* the filter and search controllers pass the number of the query string on;
\* the category and new-arrivals controllers replace 0 by 12 (part_020 line 35, 124)
PageSizes == 0 .. MaxPageSize
PositivePageSizes == PageSizes \ {0}
PageNumbers == {1, 2}

ServiceRequests ==
  {[op |-> "category",
    args |-> [categoryId |-> c, page |-> pg, perPage |-> pp,
              orderby |-> "date", order |-> "desc"]] :
     c \in {5, 7}, pg \in PageNumbers, pp \in PositivePageSizes}
  \cup
  {[op |-> "filter",
    args |-> [page |-> pg, per_page |-> pp, orderby |-> "date", order |-> "desc",
              attributes |-> a]] :
     a \in {<<>>, << <<"pa_colour", <<"a", "-", "b">> >> >>},
     pg \in PageNumbers, pp \in PageSizes}
  \cup
  {[op |-> "search",
    args |-> [q |-> q, category |-> c, page |-> pg, per_page |-> pp]] :
     q \in {None, Some(<<" ">>), Some(<<"B">>), Some(<<"A", "b">>)},
     c \in {None, Some(<<"T">>)}, pg \in PageNumbers, pp \in PageSizes}
  \cup
  {[op |-> "newArrivals",
    args |-> [now |-> n, page |-> pg, perPage |-> pp]] :
     n \in {[y |-> 1, m |-> 3, d |-> 31], [y |-> 1, m |-> 5, d |-> 1]},
     pg \in PageNumbers, pp \in PositivePageSizes}

\* the invocation slot the services call fetchAllProducts in
ServiceCall == 1

\* a service is called.  searchProducts answers a blank query at once (line
\* 166-168); everything else first awaits fetchAllProducts()
callService(request) ==
  /\ svc.op = "none"
  /\ IF request.op = "search" /\ blankQuery(request.args.q)
     THEN /\ svc' = [op |-> request.op, args |-> request.args, phase |-> "done",
                     fault |-> "none", result |-> emptyResponse(request.args.per_page)]
          /\ UNCHANGED <<redis, call, origin, fresh, returned>>
     ELSE /\ svc' = [op |-> request.op, args |-> request.args, phase |-> "await",
                     fault |-> "none", result |-> Raised]
          /\ Begin(ServiceCall, FALSE)
  /\ UNCHANGED <<fin, lineage, fout, popular, facets, options, catg, server>>

\* fetchAllProducts has settled: the service computes its result
resumeService ==
  /\ svc.op # "none" /\ svc.phase = "await"
  /\ End(ServiceCall)
  /\ svc' = [svc EXCEPT !.phase = "done",
                        !.fault = call[ServiceCall].fault,
                        !.result = serviceResult(svc.op, svc.args,
                                                 call[ServiceCall].status,
                                                 call[ServiceCall].value)]
  /\ UNCHANGED <<fin, lineage, fout, popular, facets, options, catg, server>>

\* the controller has sent the response
respond ==
  /\ svc.op # "none" /\ svc.phase = "done"
  /\ svc' = NoRequest
  /\ UNCHANGED <<redis, call, origin, fresh, returned, fin, lineage, fout, popular, facets,
                 options, catg, server>>

NextQuery ==
  \/ \E request \in ServiceRequests : callService(request)
  \/ resumeService
  \/ respond
  \/ redisGet(ServiceCall)
  \/ redisGetError(ServiceCall)
  \/ \E products \in Pages(call[ServiceCall].page) : wcApiGet(ServiceCall, products)
  \/ wcApiGetError(ServiceCall)
  \/ redisSet(ServiceCall)
  \/ redisSetError(ServiceCall)
  \/ Expire
  \/ flushall

SpecQuery == Init /\ [][NextQuery]_vars

\* part_021 line 268-277: the documented frontend keys and the attribute each
\* one stands for
AttributeMapping ==
  [material |-> "pa_material", roomType |-> "pa_room-type-usage",
   colour |-> "pa_colour", finish |-> "pa_finish"]

----------------------------------------------------------------------------
(* fetchPopularProducts: products.service.js line 311-349 *)

\* line 329: per_page of the request for the popular products
POPULAR_PER_PAGE == 12

\* the upstream catalogue holds at most this many products
MaxCatalogue == 14

\* the upstream's i-th most popular product; its image list is absent, or
\* holds one or two images
PopularProduct(i) ==
  [RawProduct(i) EXCEPT
     !.images = CASE i % 3 = 0 -> None
                  [] i % 3 = 1 -> Some(<<[id |-> 10 * i + 1]>>)
                  [] OTHER -> Some(<<[id |-> 10 * i + 1], [id |-> 10 * i + 2]>>)]

\* line 326-333: the upstream's answer to orderby=popularity, order=desc,
\* per_page: the first per_page products of its catalogue of `size` products
wcApiPopular(size, per_page) ==
  [i \in 1 .. Min(size, per_page) |-> PopularProduct(i)]

keepFirstImage_all(product) == product

\* line 336-339: images: product.images[0] ? [product.images[0]] : []
keepFirstImage(product) ==
  [product EXCEPT !.images = Some(IF @[1] = <<>> THEN <<>> ELSE <<@[1][1]>>)]

\* what the steps of fetchPopularProducts leave alone
notPopular ==
  <<redis, call, origin, fresh, returned, svc, fin, lineage, fout, facets, options, catg,
    server>>

\* line 345-348: the catch block logs and rethrows
popularThrow(fault) ==
  [popular EXCEPT !.pc = "done", !.status = "raised", !.value = <<>>, !.fault = fault]

\* line 311-316: the call, up to its first await
startPopular(forceRefresh) ==
  /\ popular.pc = "idle"
  /\ popular' = [PopularIdle EXCEPT !.store = popular.store,
                                    !.forceRefresh = forceRefresh,
                                    !.pc = IF forceRefresh THEN "fetch" ELSE "get"]

\* the call on its own
fetchPopularProducts(forceRefresh) ==
  /\ startPopular(forceRefresh)
  /\ UNCHANGED notPopular

\* line 317-322: the read of the key returns
popularGet ==
  /\ popular.pc = "get"
  /\ popular' = IF popular.store # None
                THEN [popular EXCEPT !.pc = "done", !.status = "ok",
                                     !.value = JSONParse(popular.store[1].json),
                                     !.read = "ok", !.seen = popular.store]
                ELSE [popular EXCEPT !.pc = "fetch", !.read = "ok"]
  /\ UNCHANGED notPopular

\* line 317: the read of the key throws
popularGetError ==
  /\ popular.pc = "get"
  /\ popular' = [popularThrow("get") EXCEPT !.read = "error"]
  /\ UNCHANGED notPopular

\* line 333-339: the upstream answers; the products are transformed and cut
\* to their first image
popularWcApiGet(size) ==
  /\ popular.pc = "fetch"
  /\ LET data == wcApiPopular(size, POPULAR_PER_PAGE)
         transformed == transformProducts(data)
     IN  popular' = [popular EXCEPT
                       !.pc = "set", !.size = size,
                       !.products = [i \in DOMAIN transformed |->
                                       keepFirstImage(transformed[i])]]
  /\ UNCHANGED notPopular

\* line 333: the upstream request throws
popularWcApiGetError ==
  /\ popular.pc = "fetch"
  /\ popular' = popularThrow("upstream")
  /\ UNCHANGED notPopular

\* line 342-344: the write of the key returns
popularSet ==
  /\ popular.pc = "set"
  /\ popular' = [popular EXCEPT
                   !.pc = "done", !.status = "ok", !.value = popular.products,
                   !.store = Some([json |-> JSONStringify(popular.products),
                                   ttl |-> CACHE_TTL])]
  /\ UNCHANGED notPopular

\* line 342: the write of the key throws
popularSetError ==
  /\ popular.pc = "set"
  /\ popular' = popularThrow("set")
  /\ UNCHANGED notPopular

\* the caller has the result
popularReturn ==
  /\ popular.pc = "done"
  /\ popular' = [PopularIdle EXCEPT !.store = popular.store]
  /\ UNCHANGED notPopular

\* the key expires, or is deleted (server.js line 37, clear-cache.js line 26-28)
popularForget ==
  /\ popular.store # None
  /\ popular' = [popular EXCEPT !.store = None]
  /\ UNCHANGED notPopular

NextPopular ==
  \/ \E forceRefresh \in BOOLEAN : fetchPopularProducts(forceRefresh)
  \/ popularGet
  \/ popularGetError
  \/ \E size \in 0 .. MaxCatalogue : popularWcApiGet(size)
  \/ popularWcApiGetError
  \/ popularSet
  \/ popularSetError
  \/ popularReturn
  \/ popularForget

SpecPopular == Init /\ [][NextPopular]_vars

----------------------------------------------------------------------------
(* fetchFilterOptions: filter.wp.js line 29-65 *)

\* a term of the attribute at position k of ATTRIBUTES, as the upstream
\* returns it
RawTerm(k, n) ==
  [id |-> 10 * k + n, name |-> <<"A">>, slug |-> <<"a">>, count |-> n,
   description |-> <<>>]

\* what a term request for that attribute can return
TermLists(k) == {<<>>, <<RawTerm(k, 1)>>, <<RawTerm(k, 1), RawTerm(k, 2)>>}

\* line 51-56: terms.map(term => ({id, name, slug, count}))
mapTerms(terms) ==
  [i \in DOMAIN terms |->
     [id |-> terms[i].id, name |-> terms[i].name, slug |-> terms[i].slug,
      count |-> terms[i].count]]

\* what the steps of fetchFilterOptions leave alone
notFacets ==
  <<redis, call, origin, fresh, returned, svc, fin, lineage, fout, popular, options, catg,
    server>>

RECURSIVE loopFrom(_)
\* line 38-59: the loop from the slot it is at up to its next await: an
\* attribute the upstream does not define gets an empty list; at the end of
\* ATTRIBUTES the results are returned
loopFrom(f) ==
  IF f.slot > Len(ATTRIBUTES)
  THEN [f EXCEPT !.pc = "done", !.status = "ok",
                 !.value = [slug \in Range(ATTRIBUTES) |-> f.results[slug][1]]]
  ELSE IF ATTRIBUTES[f.slot] \notin f.allAttributes
       THEN loopFrom([f EXCEPT !.results[ATTRIBUTES[f.slot]] = Some(<<>>),
                               !.failed = @ \cup {ATTRIBUTES[f.slot]},
                               !.slot = @ + 1])
       ELSE [f EXCEPT !.pc = "terms"]

catchFacets_keep(f) ==
  [slug \in Range(ATTRIBUTES) |->
     IF f.results[slug] = None THEN <<>> ELSE f.results[slug][1]]

\* line 60-64: the catch block returns an empty list for every attribute
catchFacets(f) == [slug \in Range(ATTRIBUTES) |-> <<>>]

\* line 29-34: the call, up to the request for the attribute definitions
startFacets ==
  /\ facets.pc = "idle"
  /\ facets' = [FacetsIdle EXCEPT !.pc = "attributes"]

\* the call on its own
fetchFilterOptions ==
  /\ startFacets
  /\ UNCHANGED notFacets

\* line 34-37: the attribute definitions arrive
attributesGet(defined) ==
  /\ facets.pc = "attributes"
  /\ facets' = loopFrom([facets EXCEPT !.allAttributes = defined])
  /\ UNCHANGED notFacets

\* line 34: the request for the attribute definitions throws
attributesGetError ==
  /\ facets.pc = "attributes"
  /\ facets' = [facets EXCEPT !.pc = "done", !.status = "ok",
                              !.failed = Range(ATTRIBUTES),
                              !.fault = "attributes",
                              !.value = catchFacets(facets)]
  /\ UNCHANGED notFacets

\* line 46-57: the terms of the attribute at the slot arrive
termsGet(k, terms) ==
  /\ facets.pc = "terms"
  /\ facets.slot = k
  /\ LET slug == ATTRIBUTES[facets.slot]
     IN  facets' = loopFrom([facets EXCEPT !.results[slug] = Some(mapTerms(terms)),
                                           !.fetched[slug] = Some(mapTerms(terms)),
                                           !.slot = @ + 1])
  /\ UNCHANGED notFacets

\* line 46: the term request of the attribute at the slot throws
termsGetError ==
  /\ facets.pc = "terms"
  /\ facets' = [facets EXCEPT !.pc = "done", !.status = "ok",
                              !.failed = @ \cup {ATTRIBUTES[facets.slot]},
                              !.fault = "terms",
                              !.value = catchFacets(facets)]
  /\ UNCHANGED notFacets

\* the caller has the result
facetsReturn ==
  /\ facets.pc = "done"
  /\ facets' = FacetsIdle
  /\ UNCHANGED notFacets

NextFacets ==
  \/ fetchFilterOptions
  \/ \E defined \in SUBSET Range(ATTRIBUTES) : attributesGet(defined)
  \/ attributesGetError
  \/ \E k \in DOMAIN ATTRIBUTES : \E terms \in TermLists(k) : termsGet(k, terms)
  \/ termsGetError
  \/ facetsReturn

SpecFacets == Init /\ [][NextFacets]_vars

----------------------------------------------------------------------------
(* getFilterOptions: filter.service.js line 111-139 *)

\* line 131: JSON.stringify of a facet set
stringifyFacets(data) ==
  [slug \in DOMAIN data |->
     [i \in DOMAIN data[slug] |->
        [id |-> data[slug][i].id, name |-> data[slug][i].name,
         slug |-> data[slug][i].slug, count |-> data[slug][i].count]]]

\* line 117: JSON.parse of the stored text
parseFacets(text) ==
  [slug \in DOMAIN text |->
     [i \in DOMAIN text[slug] |->
        [id |-> text[slug][i].id, name |-> text[slug][i].name,
         slug |-> text[slug][i].slug, count |-> text[slug][i].count]]]

\* what the steps of getFilterOptions and of the fetch it awaits leave alone
notOptions ==
  <<redis, call, origin, fresh, returned, svc, fin, lineage, fout, popular, catg, server>>

readFailed_raise(o) ==
  [o EXCEPT !.pc = "done", !.status = "raised", !.read = "error", !.fault = "get"]

\* line 119-121: a failing read of the key is logged, and the function goes on
\* to the fetch
readFailed(o) == [o EXCEPT !.pc = "fetch", !.read = "error"]

writeFailed_raise(o) ==
  [o EXCEPT !.pc = "done", !.status = "raised", !.fault = "set"]

\* line 133-135, 138: a failing write of the key is logged, and the fetched
\* data is returned
writeFailed(o) ==
  [o EXCEPT !.pc = "done", !.status = "ok", !.value = o.data, !.fault = "set"]

\* line 111-115: the call, up to its first await
startOptions(forceRefresh) ==
  /\ options.pc = "idle"
  /\ options' = [OptionsIdle EXCEPT !.store = options.store,
                                    !.forceRefresh = forceRefresh,
                                    !.pc = IF forceRefresh THEN "fetch" ELSE "get"]

\* the call on its own
getFilterOptions(forceRefresh) ==
  /\ startOptions(forceRefresh)
  /\ UNCHANGED <<facets, notOptions>>

\* line 115-118: the read of the key returns
optionsGet ==
  /\ options.pc = "get"
  /\ options' = IF options.store # None
                THEN [options EXCEPT !.pc = "done", !.status = "ok",
                                     !.value = parseFacets(options.store[1].json),
                                     !.read = "ok", !.seen = options.store]
                ELSE [options EXCEPT !.pc = "fetch", !.read = "ok"]
  /\ UNCHANGED <<facets, notOptions>>

\* line 115: the read of the key throws
optionsGetError ==
  /\ options.pc = "get"
  /\ options' = readFailed(options)
  /\ UNCHANGED <<facets, notOptions>>

\* line 126: fetchFilterOptionsFromWP is called
optionsFetch ==
  /\ options.pc = "fetch"
  /\ startFacets
  /\ options' = [options EXCEPT !.pc = "await"]
  /\ UNCHANGED notOptions

\* line 126, 129: fetchFilterOptionsFromWP has returned; its result is an
\* object, which is truthy, so the write follows
optionsFetched ==
  /\ options.pc = "await"
  /\ facets.pc = "done"
  /\ options' = [options EXCEPT
                   !.pc = "set", !.data = facets.value,
                   !.upstream = IF facets.fault = "none" THEN "ok" ELSE "failed"]
  /\ facets' = FacetsIdle
  /\ UNCHANGED notOptions

\* line 131, 138: the write of the key returns
optionsSet ==
  /\ options.pc = "set"
  /\ options' = [options EXCEPT
                   !.pc = "done", !.status = "ok", !.value = options.data,
                   !.store = Some([json |-> stringifyFacets(options.data),
                                   ttl |-> CACHE_TTL])]
  /\ UNCHANGED <<facets, notOptions>>

\* line 131: the write of the key throws
optionsSetError ==
  /\ options.pc = "set"
  /\ options' = writeFailed(options)
  /\ UNCHANGED <<facets, notOptions>>

\* the caller has the result
optionsReturn ==
  /\ options.pc = "done"
  /\ options' = [OptionsIdle EXCEPT !.store = options.store]
  /\ UNCHANGED <<facets, notOptions>>

\* the key expires, or is deleted (server.js line 37)
optionsForget ==
  /\ options.store # None
  /\ options' = [options EXCEPT !.store = None]
  /\ UNCHANGED <<facets, notOptions>>

\* the attribute definitions the upstream answers with in this specification
OptionsDefined == {{}, {"pa_material"}, {"pa_material", "pa_colour"}}

NextOptions ==
  \/ \E forceRefresh \in BOOLEAN : getFilterOptions(forceRefresh)
  \/ optionsGet
  \/ optionsGetError
  \/ optionsFetch
  \/ \E defined \in OptionsDefined : attributesGet(defined)
  \/ attributesGetError
  \/ \E k \in DOMAIN ATTRIBUTES : \E terms \in TermLists(k) : termsGet(k, terms)
  \/ termsGetError
  \/ optionsFetched
  \/ optionsSet
  \/ optionsSetError
  \/ optionsReturn
  \/ optionsForget

SpecOptions == Init /\ [][NextOptions]_vars

----------------------------------------------------------------------------
(* fetchCategoryBySlug: products.service.js line 109-138 *)

\* a category as the upstream returns it
Category(id, slug) == [id |-> id, name |-> slug, slug |-> slug, count |-> id]

\* what the upstream answers to a request for the categories of a slug
CategoryMatches(slug) ==
  {<<>>, <<Category(1, slug)>>, <<Category(2, slug), Category(1, slug)>>}

\* what the upstream answers to a request that names no slug: the first page
\* of all its categories
CategoryListing ==
  { <<Category(1, "t"), Category(2, "m")>>, <<Category(2, "m")>> }

\* line 122-124: the slug goes out wrapped, { params: { slug } }, where the
\* other requests to this client pass their parameters as the object itself
\* (line 164-168; "Remove the params wrapper", part_008 line 80-81): the
\* answer is that of a request for the slug, or, the wrapped slug being no
\* parameter the upstream knows, that of a request without one
CategoryAnswers(slug) == CategoryMatches(slug) \cup CategoryListing

\* line 130, 187: JSON.stringify of a category
stringifyCategory(cat) ==
  [id |-> cat.id, name |-> cat.name, slug |-> cat.slug, count |-> cat.count]

\* line 117: JSON.parse of the stored text
parseCategory(text) ==
  [id |-> text.id, name |-> text.name, slug |-> text.slug, count |-> text.count]

\* what the steps of the category functions leave alone
notCats ==
  <<redis, call, origin, fresh, returned, svc, fin, lineage, fout, popular, facets,
    options, server>>

lookupCatch_rethrow(lk, fault) ==
  [lk EXCEPT !.pc = "done", !.status = "raised", !.value = None, !.fault = fault]

\* line 134-137: the catch block logs and returns null
lookupCatch(lk, fault) ==
  [lk EXCEPT !.pc = "done", !.status = "ok", !.value = None, !.fault = fault]

\* line 109-114: the call, up to its first await
fetchCategoryBySlug(slug) ==
  /\ catg.lk.pc = "idle"
  /\ catg' = [catg EXCEPT !.lk = [LookupIdle EXCEPT !.slug = slug, !.pc = "get"]]
  /\ UNCHANGED notCats

\* line 114-118, 122: the read of the key returns
lookupGet ==
  /\ catg.lk.pc = "get"
  /\ LET stored == catg.store[catg.lk.slug]
     IN  catg' = [catg EXCEPT !.lk =
                    IF stored # None
                    THEN [@ EXCEPT !.pc = "done", !.status = "ok",
                                   !.value = Some(parseCategory(stored[1].json)),
                                   !.read = "ok", !.seen = stored]
                    ELSE [@ EXCEPT !.pc = "fetch", !.read = "ok", !.reqs = @ + 1]]
  /\ UNCHANGED notCats

\* line 114: the read of the key throws
lookupGetError ==
  /\ catg.lk.pc = "get"
  /\ catg' = [catg EXCEPT !.lk = [lookupCatch(@, "get") EXCEPT !.read = "error"]]
  /\ UNCHANGED notCats

\* line 122-130, 133: the upstream answers; category = data[0] || null
lookupWcApiGet(slug, data) ==
  /\ catg.lk.pc = "fetch"
  /\ catg.lk.slug = slug
  /\ catg' = [catg EXCEPT !.lk =
                IF data # <<>>
                THEN [@ EXCEPT !.pc = "set", !.category = Some(data[1])]
                ELSE [@ EXCEPT !.pc = "done", !.status = "ok", !.value = None]]
  /\ UNCHANGED notCats

\* line 122: the upstream request throws
lookupWcApiGetError ==
  /\ catg.lk.pc = "fetch"
  /\ catg' = [catg EXCEPT !.lk = lookupCatch(@, "upstream")]
  /\ UNCHANGED notCats

\* line 130, 133: the write of the key returns
lookupSet ==
  /\ catg.lk.pc = "set"
  /\ catg' = [catg EXCEPT
                !.store[catg.lk.slug] =
                   Some([json |-> stringifyCategory(catg.lk.category[1]),
                         ttl |-> CACHE_TTL]),
                !.lk = [@ EXCEPT !.pc = "done", !.status = "ok",
                                 !.value = catg.lk.category]]
  /\ UNCHANGED notCats

\* line 130: the write of the key throws
lookupSetError ==
  /\ catg.lk.pc = "set"
  /\ catg' = [catg EXCEPT !.lk = lookupCatch(@, "set")]
  /\ UNCHANGED notCats

\* the caller has the result
lookupReturn ==
  /\ catg.lk.pc = "done"
  /\ catg' = [catg EXCEPT !.lk = LookupIdle]
  /\ UNCHANGED notCats

\* a category key expires, or is deleted (server.js line 37)
categoryForget(slug) ==
  /\ catg.store[slug] # None
  /\ catg' = [catg EXCEPT !.store[slug] = None]
  /\ UNCHANGED notCats

NextLookup ==
  \/ \E slug \in CategorySlugs : fetchCategoryBySlug(slug)
  \/ lookupGet
  \/ lookupGetError
  \/ \E slug \in CategorySlugs :
       \E data \in CategoryAnswers(slug) : lookupWcApiGet(slug, data)
  \/ lookupWcApiGetError
  \/ lookupSet
  \/ lookupSetError
  \/ lookupReturn
  \/ \E slug \in CategorySlugs : categoryForget(slug)

SpecLookup == Init /\ [][NextLookup]_vars

----------------------------------------------------------------------------
(* cacheAllCategoriesOnStart: products.service.js line 145-200 *)

\* the upstream has this many category ids
MaxCategoryIds == 3

\* a page of the upstream holds at most this many categories
MaxCategoryPage == 2

\* the page counter of the warm-up is counted up to this page and stays
\* there; the warm-up ends well before it
MaxWarmupPages == 6

CategoryIds == 1 .. MaxCategoryIds

\* the category of an id: the first two ids carry the slugs of the model, the
\* others carry none
CategoryOf(id) ==
  Category(id, CASE id = 1 -> "t" [] id = 2 -> "m" [] OTHER -> "")

\* what the upstream can answer to a page request: any short sequence of
\* categories, whatever the page number
CategoryPages ==
  UNION {[1 .. n -> {CategoryOf(id) : id \in CategoryIds}] :
           n \in 0 .. MaxCategoryPage}

\* line 176: processedIds.has(data[0].id)
duplicatePage_never(processedIds, data) == FALSE

duplicatePage(processedIds, data) == data[1].id \in processedIds

pipelineSets_replacing(store, data) ==
  [slug \in CategorySlugs |->
     IF \E i \in DOMAIN data : data[i].slug = slug
     THEN Some([json |-> stringifyCategory(
                           data[CHOOSE i \in DOMAIN data : data[i].slug = slug]),
                ttl |-> CACHE_TTL])
     ELSE None]

RECURSIVE pipelineSets(_, _)
\* line 184-191: the keys after the pipeline of the page has run: one SET per
\* category that has a slug, in page order
pipelineSets(store, data) ==
  IF data = <<>>
  THEN store
  ELSE pipelineSets(
         IF Head(data).slug # ""
         THEN [store EXCEPT ![Head(data).slug] =
                 Some([json |-> stringifyCategory(Head(data)), ttl |-> CACHE_TTL])]
         ELSE store,
         Tail(data))

\* line 145-149, 156-164: the call, up to its first await
startWarmup(forceRefresh) ==
  /\ catg.wu.pc = "idle"
  /\ catg' = [catg EXCEPT !.wu =
                [WarmupIdle EXCEPT !.forceRefresh = forceRefresh,
                                   !.pc = IF forceRefresh THEN "request" ELSE "keys"]]

\* the call on its own
cacheAllCategoriesOnStart(forceRefresh) ==
  /\ startWarmup(forceRefresh)
  /\ UNCHANGED notCats

\* line 149-154: the key listing returns
warmupKeys ==
  /\ catg.wu.pc = "keys"
  /\ catg' = [catg EXCEPT !.wu =
                IF \E slug \in CategorySlugs : catg.store[slug] # None
                THEN [@ EXCEPT !.pc = "done", !.status = "skipped"]
                ELSE [@ EXCEPT !.pc = "request"]]
  /\ UNCHANGED notCats

\* line 162-182: a page arrives
warmupPage(data) ==
  /\ catg.wu.pc = "request"
  /\ catg' = [catg EXCEPT !.wu =
                IF data = <<>>
                THEN [@ EXCEPT !.pc = "done", !.status = "empty"]
                ELSE IF duplicatePage(@.processedIds, data)
                     THEN [@ EXCEPT !.pc = "done", !.status = "duplicate"]
                     ELSE [@ EXCEPT !.pc = "exec", !.data = data,
                                    !.processedIds = @ \cup {data[i].id : i \in DOMAIN data}]]
  /\ UNCHANGED notCats

\* line 191-193: the pipeline has run
warmupExec ==
  /\ catg.wu.pc = "exec"
  /\ catg' = [catg EXCEPT !.store = pipelineSets(@, catg.wu.data),
                          !.wu = [@ EXCEPT !.pc = "request",
                                           !.page = Min(@ + 1, MaxWarmupPages),
                                           !.data = <<>>]]
  /\ UNCHANGED notCats

\* line 197-199: an await throws; the catch block logs
warmupError ==
  /\ catg.wu.pc \in {"keys", "request", "exec"}
  /\ catg' = [catg EXCEPT !.wu = [@ EXCEPT !.pc = "done", !.status = "failed"]]
  /\ UNCHANGED notCats

\* the caller has the result
warmupReturn ==
  /\ catg.wu.pc = "done"
  /\ catg' = [catg EXCEPT !.wu = WarmupIdle]
  /\ UNCHANGED notCats

\* the steps of the warm-up that answer an await
WarmupAnswer ==
  \/ warmupKeys
  \/ \E data \in CategoryPages : warmupPage(data)
  \/ warmupExec
  \/ warmupError

NextWarmup ==
  \/ \E forceRefresh \in BOOLEAN : cacheAllCategoriesOnStart(forceRefresh)
  \/ warmupKeys
  \/ \E data \in CategoryPages : warmupPage(data)
  \/ warmupExec
  \/ warmupError
  \/ warmupReturn
  \/ \E slug \in CategorySlugs : categoryForget(slug)

\* every await of the warm-up is answered, by a value or by an error
SpecWarmup == Init /\ [][NextWarmup]_vars /\ WF_vars(WarmupAnswer)

----------------------------------------------------------------------------
(* fetchAllCategories: products.service.js line 80-107 *)

\* line 94-99: the fields of a category that are handed out
listedFields(cat) == [id |-> cat.id, name |-> cat.name, slug |-> cat.slug, count |-> cat.count]

\* line 88-99: the values of the keys, parsed; a key that holds nothing and a
\* record without a name are left out.  The order of the keys is the
\* store's, so the result is taken as a set.
listedCategories(store, keys) ==
  {listedFields(parseCategory(store[slug][1].json)) :
     slug \in {k \in keys : /\ store[k] # None
                            /\ parseCategory(store[k][1].json).name # ""}}

\* line 80-82: the call, up to its first await
fetchAllCategories ==
  /\ catg.all.pc = "idle"
  /\ catg' = [catg EXCEPT !.all = [ListingIdle EXCEPT !.pc = "keys"]]
  /\ UNCHANGED notCats

\* line 82-88: KEYS category:* returns
listingKeys ==
  /\ catg.all.pc = "keys"
  /\ LET keys == {slug \in CategorySlugs : catg.store[slug] # None}
         warm == IF /\ catg.wu.pc = "done"
                    /\ catg.wu.forceRefresh
                    /\ catg.wu.status \in {"empty", "duplicate"}
                 THEN Some(catg.wu.processedIds) ELSE None
     IN  catg' = [catg EXCEPT !.all =
                    IF keys = {}
                    THEN [@ EXCEPT !.pc = "done", !.status = "ok", !.value = {},
                                   !.warm = warm]
                    ELSE [@ EXCEPT !.pc = "mget", !.keys = keys, !.warm = warm]]
  /\ UNCHANGED notCats

\* line 88-101: MGET returns
listingMget ==
  /\ catg.all.pc = "mget"
  /\ catg' = [catg EXCEPT !.all =
                [@ EXCEPT !.pc = "done", !.status = "ok",
                          !.value = listedCategories(catg.store, catg.all.keys)]]
  /\ UNCHANGED notCats

\* line 102-105: a read throws; the catch block logs and returns []
listingError ==
  /\ catg.all.pc \in {"keys", "mget"}
  /\ catg' = [catg EXCEPT !.all =
                [@ EXCEPT !.pc = "done", !.status = "ok", !.value = {},
                          !.fault = "read"]]
  /\ UNCHANGED notCats

\* the caller has the result
listingReturn ==
  /\ catg.all.pc = "done"
  /\ catg' = [catg EXCEPT !.all = ListingIdle]
  /\ UNCHANGED notCats

NextIndex ==
  \/ \E forceRefresh \in BOOLEAN : cacheAllCategoriesOnStart(forceRefresh)
  \/ warmupKeys
  \/ \E data \in CategoryPages : warmupPage(data)
  \/ warmupExec
  \/ warmupError
  \/ warmupReturn
  \/ fetchAllCategories
  \/ listingKeys
  \/ listingMget
  \/ listingError
  \/ listingReturn

\* warm-ups and listings within the lifetime of the keys
SpecIndex == Init /\ [][NextIndex]_vars

----------------------------------------------------------------------------
(* The category keys under both of their writers *)

NextCategories ==
  \/ \E slug \in CategorySlugs : fetchCategoryBySlug(slug)
  \/ lookupGet
  \/ lookupGetError
  \/ \E slug \in CategorySlugs :
       \E data \in CategoryAnswers(slug) : lookupWcApiGet(slug, data)
  \/ lookupWcApiGetError
  \/ lookupSet
  \/ lookupSetError
  \/ lookupReturn
  \/ \E forceRefresh \in BOOLEAN : cacheAllCategoriesOnStart(forceRefresh)
  \/ warmupKeys
  \/ \E data \in CategoryPages : warmupPage(data)
  \/ warmupExec
  \/ warmupError
  \/ warmupReturn
  \/ \E slug \in CategorySlugs : categoryForget(slug)

SpecCategories == Init /\ [][NextCategories]_vars

----------------------------------------------------------------------------
(* startServer and runFullRefresh: server.js line 13-70 *)

\* line 70: the process starts
startServer ==
  /\ server.pc = "idle"
  /\ server' = [server EXCEPT !.pc = "flush"]
  /\ UNCHANGED <<redis, call, origin, fresh, returned, svc, fin, lineage, fout, popular,
                 facets, options, catg>>

\* line 37: flushall has emptied the store
serverFlush ==
  /\ server.pc = "flush"
  /\ server' = [server EXCEPT !.pc = "refresh"]
  /\ redis' = None
  /\ origin' = None
  /\ fresh' = FALSE
  /\ returned' = FALSE
  /\ popular' = [popular EXCEPT !.store = None]
  /\ options' = [options EXCEPT !.store = None]
  /\ catg' = [catg EXCEPT !.store = [slug \in CategorySlugs |-> None]]
  /\ UNCHANGED <<call, svc, fin, lineage, fout, facets>>

\* line 37, 64-67: flushall throws; the process exits
serverFlushError ==
  /\ server.pc = "flush"
  /\ server' = [server EXCEPT !.pc = "exited"]
  /\ UNCHANGED <<redis, call, origin, fresh, returned, svc, fin, lineage, fout, popular,
                 facets, options, catg>>

\* line 38, 13-22: runFullRefresh calls the five warm-ups, each with a forced
\* refresh, and awaits them together
runFullRefresh ==
  /\ server.pc = "refresh"
  /\ server' = [server EXCEPT !.pc = "await", !.menu = "running"]
  /\ Begin(ServiceCall, TRUE)
  /\ startOptions(TRUE)
  /\ startWarmup(TRUE)
  /\ startPopular(TRUE)
  /\ UNCHANGED <<svc, fin, lineage, fout, facets>>

\* line 21: cacheMenuOnStart has ended (it catches its own errors)
menuDone ==
  /\ server.menu = "running"
  /\ server' = [server EXCEPT !.menu = "done"]
  /\ UNCHANGED <<redis, call, origin, fresh, returned, svc, fin, lineage, fout, popular,
                 facets, options, catg>>

\* line 16-26, 42-62: the five warm-ups have ended, by a result or by an error
\* that cacheFilterOptionsOnStart, cachePopularProductsOnStart or runFullRefresh
\* catches; the schedule is set and the server listens
appListen ==
  /\ server.pc = "await"
  /\ server.menu = "done"
  /\ call[ServiceCall].pc = "done"
  /\ options.pc = "done"
  /\ catg.wu.pc = "done"
  /\ popular.pc = "done"
  /\ server' = [server EXCEPT !.pc = "listening"]
  /\ UNCHANGED <<redis, call, origin, fresh, returned, svc, fin, lineage, fout, popular,
                 facets, options, catg>>

\* what the store can hold when the process starts
InitStart ==
  /\ redis \in {None, redisSetValue(None, transformProducts(<<RawProduct(1)>>))}
  /\ call = [p \in Procs |-> Idle]
  /\ origin = None
  /\ fresh = FALSE
  /\ returned = FALSE
  /\ svc = NoRequest
  /\ fin = NoInput
  /\ fout = None
  /\ popular \in {PopularIdle,
                  [PopularIdle EXCEPT !.store = Some([json |-> <<>>, ttl |-> CACHE_TTL])]}
  /\ facets = FacetsIdle
  /\ options = OptionsIdle
  /\ catg = CatsIdle
  /\ server = ServerIdle
  /\ lineage = LineageInit

NextStart ==
  \/ startServer
  \/ serverFlush
  \/ serverFlushError
  \/ runFullRefresh
  \/ menuDone
  \/ appListen
  \/ \E products \in Pages(call[ServiceCall].page) : wcApiGet(ServiceCall, products)
  \/ wcApiGetError(ServiceCall)
  \/ redisSet(ServiceCall)
  \/ redisSetError(ServiceCall)
  \/ optionsFetch
  \/ \E defined \in {{}, {"pa_material"}} : attributesGet(defined)
  \/ attributesGetError
  \/ \E terms \in TermLists(1) : termsGet(1, terms)
  \/ termsGetError
  \/ optionsFetched
  \/ optionsSet
  \/ optionsSetError
  \/ \E data \in {<<>>, <<CategoryOf(1)>>} : warmupPage(data)
  \/ warmupExec
  \/ warmupError
  \/ \E size \in {0, 1} : popularWcApiGet(size)
  \/ popularWcApiGetError
  \/ popularSet
  \/ popularSetError

SpecStart == InitStart /\ [][NextStart]_vars

----------------------------------------------------------------------------
(* The three cache-aside reads made by one caller, one call at a time *)

\* none of the three functions is running
Quiet ==
  /\ call[ServiceCall].pc = "idle"
  /\ popular.pc = "idle"
  /\ options.pc = "idle"

NextAside ==
  \/ \E forceRefresh \in BOOLEAN : Quiet /\ fetchAllProducts(ServiceCall, forceRefresh)
  \/ redisGet(ServiceCall)
  \/ redisGetError(ServiceCall)
  \/ \E products \in Pages(call[ServiceCall].page) : wcApiGet(ServiceCall, products)
  \/ wcApiGetError(ServiceCall)
  \/ redisSet(ServiceCall)
  \/ redisSetError(ServiceCall)
  \/ Return(ServiceCall)
  \/ \E forceRefresh \in BOOLEAN : Quiet /\ getFilterOptions(forceRefresh)
  \/ optionsGet
  \/ optionsGetError
  \/ optionsFetch
  \/ \E defined \in OptionsDefined : attributesGet(defined)
  \/ attributesGetError
  \/ \E terms \in TermLists(1) : termsGet(1, terms)
  \/ \E terms \in {<<>>} : termsGet(3, terms)
  \/ termsGetError
  \/ optionsFetched
  \/ optionsSet
  \/ optionsSetError
  \/ optionsReturn
  \/ \E forceRefresh \in BOOLEAN : Quiet /\ fetchPopularProducts(forceRefresh)
  \/ popularGet
  \/ popularGetError
  \/ \E size \in {0, 2} : popularWcApiGet(size)
  \/ popularWcApiGetError
  \/ popularSet
  \/ popularSetError
  \/ popularReturn

SpecAside == Init /\ [][NextAside]_vars

----------------------------------------------------------------------------
(* The filter engine on its own: getFilteredProducts over bounded inputs *)

\* a filter value lists at most this many comma-separated tokens
MaxTokens == 2
\* an attribute of a product has at most this many options
MaxOptions == 1

\* the sequences over S of length lo .. hi
SeqsOf(S, lo, hi) == UNION {[1 .. n -> S] : n \in lo .. hi}

RECURSIVE Join(_, _)
\* Array.prototype.join: what the frontend's buildQueryString sends
Join(parts, sep) ==
  IF Len(parts) = 1 THEN parts[1]
  ELSE parts[1] \o <<sep>> \o Join(Tail(parts), sep)

\* option names as a product carries them
OptionNames ==
  { <<>>, <<"A">>, <<"a", " ", "B">>, <<"a", "-", "b">>, <<"a", " ", " ", "b">> }

\* tokens as a request spells them
TokenTexts ==
  { <<>>, <<"a">>, <<" ", "A">>, <<"a", "-", "b">>, <<"A", " ", "b">>, <<"b">> }

FilterValues == {Join(ts, ",") : ts \in SeqsOf(TokenTexts, 1, MaxTokens)}

OptionLists == SeqsOf(OptionNames, 0, MaxOptions)

\* the keys a request may carry: two of the allow-list and one outside it,
\* the key the API documentation gives for the colour filter
FilterKeys == <<"pa_colour", "pa_finish", "colour">>

\* a catalogue item with the given attribute list
FilterItem(id, attrs) ==
  [id |-> id, name |-> <<"a">>, slug |-> <<"a">>,
   date_created |-> Some(id), price |-> Some(3 - id),
   categories |-> Some(<<>>), attributes |-> Some(attrs), images |-> Some(<<>>)]

\* the second item of every catalogue
RefAttrs ==
  << [slug |-> "pa_colour", options |-> << <<"b">>, <<"A">> >>],
     [slug |-> "pa_finish", options |-> << <<"A">> >>] >>

\* attribute lists that vary in their option names
RichAttrs ==
  {<<>>} \cup {<<[slug |-> k, options |-> os]>> :
                 k \in {"pa_colour", "pa_finish"}, os \in OptionLists}

\* attribute lists that vary in which attributes are there
CoarseOptions == {<<"A">>, <<"b">>}
CoarseAttrs ==
  {<<>>}
  \cup {<<[slug |-> k, options |-> <<o>>]>> :
          k \in {"pa_colour", "pa_finish"}, o \in CoarseOptions}
  \cup {<<[slug |-> "pa_colour", options |-> <<o1>>],
          [slug |-> "pa_finish", options |-> <<o2>>]>> :
          o1 \in CoarseOptions, o2 \in CoarseOptions}

\* queries of one entry, with any value
RichQueries == {<<>>} \cup {<< <<FilterKeys[k], v>> >> : k \in 1 .. 3, v \in FilterValues}

\* queries of up to three entries, with few values
CoarseValues == {<<>>, <<"a">>, <<"b">>}
RECURSIVE EntriesFrom(_)
EntriesFrom(k) ==
  IF k > Len(FilterKeys) THEN {<<>>}
  ELSE LET rest == EntriesFrom(k + 1)
       IN  rest \cup {<< <<FilterKeys[k], v>> >> \o r : v \in CoarseValues, r \in rest}
CoarseQueries == EntriesFrom(1)

FilterInputs ==
  LET pairs == (RichAttrs \X RichQueries) \cup (CoarseAttrs \X CoarseQueries)
  IN  {[allProducts |-> <<FilterItem(1, pr[1]), FilterItem(2, RefAttrs)>>,
        queryFilters |-> [page |-> 1, per_page |-> pp, orderby |-> "date",
                          order |-> ord, attributes |-> pr[2]]] :
         pr \in pairs, pp \in {1, 12}, ord \in {"asc", "desc"}}

InitFilter ==
  /\ CacheInit
  /\ SideInit
  /\ svc = NoRequest
  /\ fin \in FilterInputs
  /\ fout = None

\* getFilteredProducts runs on the catalogue it was handed
evalFilter ==
  /\ fout = None
  /\ fout' = Some(getFilteredProducts(fin.allProducts, fin.queryFilters))
  /\ UNCHANGED <<redis, call, origin, fresh, returned, svc, fin, lineage, popular, facets,
                 options, catg, server>>

NextFilter == evalFilter

SpecFilter == InitFilter /\ [][NextFilter]_vars

----------------------------------------------------------------------------
(* The query modes on their own: each service on a catalogue it was handed *)

\* a catalogue holds at most this many items
MaxItems == 3

\* a catalogue item as fetchAllProducts returns it
EngineItem(name, slug, cats, date) ==
  [id |-> 0, name |-> name, slug |-> slug,
   date_created |-> date, price |-> None,
   categories |-> Some(cats), attributes |-> Some(<<>>), images |-> Some(<<>>)]

\* the catalogues over a pool of items; an item's id is its position
Catalogues(pool) ==
  {[i \in DOMAIN items |-> [items[i] EXCEPT !.id = i]] :
     items \in SeqsOf(pool, 0, MaxItems)}

\* page numbers, in and out of range, and page sizes
EnginePages == {-1, 0, 1, 2, MaxItems + 1}
EnginePaging == EnginePages \X PositivePageSizes

CatT == [id |-> 5, slug |-> <<"t">>]
CatM == [id |-> 12, slug |-> <<"m">>]
CatX == [id |-> 7, slug |-> <<"x">>]

CategoryPool ==
  { EngineItem(<<"a">>, <<"a">>, <<>>, Some(400)),
    EngineItem(<<"a">>, <<"a">>, <<CatT, CatM>>, Some(401)),
    EngineItem(<<"b">>, <<"b">>, <<CatT, CatM>>, Some(400)),
    EngineItem(<<"a">>, <<"a">>, <<CatX>>, Some(402)),
    EngineItem(<<"b">>, <<"b">>, <<CatM>>, Some(401)) }

\* a call of fetchProductsByCategory
CategoryInput(c, id, pg, ord) ==
  [op |-> "category", allProducts |-> c,
   args |-> [categoryId |-> id, page |-> pg[1], perPage |-> pg[2],
             orderby |-> "date", order |-> ord]]

\* names around the term "a": the term itself in either case, names that start
\* with it, a name that holds it, names without it; slugs are lower case as
\* the upstream stores them
SearchPool ==
  { EngineItem(<<"A">>, <<"a">>, <<CatT>>, Some(400)),
    EngineItem(<<"a">>, <<"a", "-", "a">>, <<>>, Some(400)),
    EngineItem(<<"A", " ", "b">>, <<"a", "-", "b">>, <<CatT, CatM>>, Some(400)),
    EngineItem(<<"a", "b">>, <<"a", "b">>, <<>>, Some(400)),
    EngineItem(<<"b", " ", "A">>, <<"b", "-", "a">>, <<CatM>>, Some(400)),
    EngineItem(<<"B">>, <<"b", "-", "a">>, <<CatT>>, Some(400)),
    EngineItem(<<"b">>, <<"b">>, <<CatT>>, Some(400)) }

SearchTerms == {<<"a">>, <<" ", "A">>, <<"b">>}
SearchCategories == {None, Some(<<"T">>)}

\* a call of searchProducts
SearchInput(c, q, cat, pg) ==
  [op |-> "search", allProducts |-> c,
   args |-> [q |-> Some(q), category |-> cat, page |-> pg[1], per_page |-> pg[2]]]

\* the days new arrivals are asked for, the last one a day whose month two
\* months earlier is too short for it
Nows == { [y |-> 1, m |-> 3, d |-> 31], [y |-> 1, m |-> 5, d |-> 1],
          [y |-> 1, m |-> 4, d |-> 30] }

NewArrivalsPool ==
  {EngineItem(<<"a">>, <<"a">>, <<>>, date) :
     date \in {None} \cup {Some(t) : t \in {395, 396, 397, 424, 425, 426}}}

\* a call of fetchNewArrivals on the day `n`
NewArrivalsInput(c, n, pg) ==
  [op |-> "newArrivals", allProducts |-> c,
   args |-> [now |-> n, page |-> pg[1], perPage |-> pg[2]]]

FilterPool ==
  {[EngineItem(<<"a">>, <<"a">>, <<>>, Some(t)) EXCEPT !.attributes = Some(attrs)] :
     t \in {400, 401},
     attrs \in {<<>>, <<[slug |-> "pa_colour", options |-> << <<"A">> >>]>>}}

\* a call of getFilteredProducts
FilterModeInput(c, pg, ord, a) ==
  [op |-> "filter", allProducts |-> c,
   args |-> [page |-> pg[1], per_page |-> pg[2], orderby |-> "date", order |-> ord,
             attributes |-> a]]

InitEngine ==
  /\ CacheInit
  /\ SideInit
  /\ svc = NoRequest
  /\ fout = None
  /\ \/ \E c \in Catalogues(CategoryPool), id \in {5, 7, 12}, pg \in EnginePaging,
           ord \in {"desc", "asc"} :
          fin = CategoryInput(c, id, pg, ord)
     \/ \E c \in Catalogues(SearchPool), q \in SearchTerms, cat \in SearchCategories,
           pg \in EnginePaging :
          fin = SearchInput(c, q, cat, pg)
     \/ \E c \in Catalogues(NewArrivalsPool), n \in Nows, pg \in EnginePaging :
          fin = NewArrivalsInput(c, n, pg)
     \/ \E c \in Catalogues(FilterPool), pg \in EnginePaging, ord \in {"desc", "asc"},
           a \in {<<>>, << <<"pa_colour", <<"a">> >> >>} :
          fin = FilterModeInput(c, pg, ord, a)

\* the service runs on the catalogue fetchAllProducts returned to it
evalEngine ==
  /\ fout = None
  /\ fout' = Some(serviceResult(fin.op, fin.args, "ok", fin.allProducts))
  /\ UNCHANGED <<redis, call, origin, fresh, returned, svc, fin, lineage, popular, facets,
                 options, catg, server>>

NextEngine == evalEngine

SpecEngine == InitEngine /\ [][NextEngine]_vars

----------------------------------------------------------------------------
(* Concurrent fetches while the upstream catalogue changes *)

\* the upstream catalogue takes the versions 1 .. MaxVersion
MaxVersion == 2

\* what the steps that record the lineage leave alone
notLineage == <<svc, fin, fout, popular, facets, options, catg, server>>

\* a writer's SET has resolved: the key holds this fetch's data
redisSetTagged(p) ==
  /\ Store(p)
  /\ lineage' = [lineage EXCEPT
                   !.held = IF overwrites(IF redis = None THEN None ELSE @,
                                          TagsOf(call[p]))
                            THEN Some(TagsOf(call[p])) ELSE @]
  /\ UNCHANGED notLineage

\* the shop's catalogue changes upstream
publish ==
  /\ lineage.version < MaxVersion
  /\ lineage' = [lineage EXCEPT !.version = @ + 1]
  /\ UNCHANGED <<redis, call, origin, fresh, returned, notLineage>>

NextRace ==
  \/ \E p \in Procs, forceRefresh \in BOOLEAN : fetchAllProducts(p, forceRefresh)
  \/ \E p \in Procs : redisGet(p)
  \/ \E p \in Procs : redisGetError(p)
  \/ \E p \in Procs : \E products \in Pages(call[p].page) : wcApiGet(p, products)
  \/ \E p \in Procs : wcApiGetError(p)
  \/ \E p \in Procs : redisSetTagged(p)
  \/ \E p \in Procs : redisSetError(p)
  \/ \E p \in Procs : Return(p)
  \/ Expire
  \/ publish

SpecRace == Init /\ [][NextRace]_vars

----------------------------------------------------------------------------
(* An upstream whose pagination does not advance *)

\* the invocation with what grows without bound cut off: the list keeps its
\* first MaxPages + 1 products, the histories stop at MaxPages + 2, and the
\* page number is counted from MaxPages + 1 again once it has passed
\* MaxPages + 2
Saturated(c) ==
  [c EXCEPT !.allProducts = SubSeq(@, 1, Min(Len(@), MaxPages + 1)),
            !.page = IF @ > MaxPages + 2 THEN MaxPages + 1 ELSE @,
            !.reqs = Min(@, MaxPages + 2),
            !.asked = SubSeq(@, 1, Min(Len(@), MaxPages + 2)),
            !.trace = SubSeq(@, 1, Min(Len(@), MaxPages + 2))]

\* wcApi.get resolves: an upstream whose pagination is stuck answers every
\* page number with the same page of one product
wcApiGetPaged(p, products) ==
  /\ call[p].pc = "fetch"
  /\ IF lineage.paging = "stuck" THEN products = <<RawProduct(1)>>
     ELSE call[p].page > MaxPages => products = <<>>
  /\ call' = [call EXCEPT ![p] = Saturated(Answered(call[p], products))]
  /\ UNCHANGED <<redis, origin, fresh, returned, others>>

InitPaging ==
  /\ CacheInit
  /\ svc = NoRequest
  /\ fin = NoInput
  /\ fout = None
  /\ popular = PopularIdle
  /\ facets = FacetsIdle
  /\ options = OptionsIdle
  /\ catg = CatsIdle
  /\ server = ServerIdle
  /\ \E paging \in {"advancing", "stuck"} :
       lineage = [LineageInit EXCEPT !.paging = paging]

NextPaging ==
  \/ \E p \in Procs, forceRefresh \in BOOLEAN : fetchAllProducts(p, forceRefresh)
  \/ \E p \in Procs : redisGet(p)
  \/ \E p \in Procs : redisGetError(p)
  \/ \E p \in Procs : \E products \in Pages(call[p].page) \cup {<<RawProduct(1)>>} :
       wcApiGetPaged(p, products)
  \/ \E p \in Procs : wcApiGetError(p)
  \/ \E p \in Procs : redisSet(p)
  \/ \E p \in Procs : redisSetError(p)
  \/ \E p \in Procs : Return(p)
  \/ Expire

\* every request the invocation awaits is answered, by a value or by an error
SpecPaging ==
  /\ InitPaging
  /\ [][NextPaging]_vars
  /\ \A p \in Procs :
       /\ WF_vars(redisGet(p) \/ redisGetError(p))
       /\ WF_vars((\E products \in Pages(call[p].page) \cup {<<RawProduct(1)>>} :
                     wcApiGetPaged(p, products))
                  \/ wcApiGetError(p))
       /\ WF_vars(redisSet(p) \/ redisSetError(p))

----------------------------------------------------------------------------
(* The sort keys of the category listing and of the filter endpoint *)

\* items of category 5 whose orders by name, by date and by price all differ
OrderPool ==
  { [EngineItem(<<"a">>, <<"a">>, <<CatT>>, Some(402)) EXCEPT !.price = Some(2)],
    [EngineItem(<<"a", "b">>, <<"a", "b">>, <<CatT>>, Some(400)) EXCEPT !.price = Some(3)],
    [EngineItem(<<"b">>, <<"b">>, <<CatT>>, Some(401)) EXCEPT !.price = Some(1)] }

\* the orderby values of a request: the documented ones, the alias of the
\* category listing, and values no switch names
Orderbys == {"date", "price", "title", "name", "popularity", ""}

InitOrder ==
  /\ CacheInit
  /\ SideInit
  /\ svc = NoRequest
  /\ fout = None
  /\ \E c \in Catalogues(OrderPool), orderby \in Orderbys, ord \in {"desc", "asc"},
        pg \in {<<1, MaxItems>>, <<2, 1>>} :
       \/ fin = [CategoryInput(c, 5, pg, ord) EXCEPT !.args.orderby = orderby]
       \/ fin = [FilterModeInput(c, pg, ord, <<>>) EXCEPT !.args.orderby = orderby]

SpecOrder == InitOrder /\ [][NextEngine]_vars

----------------------------------------------------------------------------
(* Sorting items without a date, and the order parameter *)

\* the items of OrderPool and two of category 5 whose date_created is
\* undefined: new Date(undefined) is an invalid date
SortPool ==
  OrderPool \cup
  { [EngineItem(<<"c">>, <<"c">>, <<CatT>>, None) EXCEPT !.price = Some(4)],
    [EngineItem(<<"d">>, <<"d">>, <<CatT>>, None) EXCEPT !.price = Some(5)] }

\* the order values of a request: the documented ones, another spelling, the
\* empty string
Orders == {"asc", "desc", "ASC", ""}

InitSort ==
  /\ CacheInit
  /\ SideInit
  /\ svc = NoRequest
  /\ fout = None
  /\ \E c \in Catalogues(SortPool), orderby \in {"date", "price", "title"},
        ord \in Orders :
       \/ fin = [CategoryInput(c, 5, <<1, MaxItems>>, ord) EXCEPT !.args.orderby = orderby]
       \/ fin = [FilterModeInput(c, <<1, MaxItems>>, ord, <<>>)
                   EXCEPT !.args.orderby = orderby]

SpecSort == InitSort /\ [][NextEngine]_vars

----------------------------------------------------------------------------
(* Query parameters as the query string delivers them: values of any type *)

\* a parameter value: a string, an array of strings (a repeated parameter),
\* or the number a default supplies
StringValue(text) == [type |-> "string", n |-> 0, text |-> text, items |-> <<>>]
ArrayValue(items) == [type |-> "array", n |-> 0, text |-> <<>>, items |-> items]
NumberValue(n) == [type |-> "number", n |-> n, text |-> <<>>, items |-> <<>>]

\* the truthiness of a value: an array is truthy, also an empty one
truthy(value) ==
  CASE value.type = "string" -> value.text # <<>>
    [] value.type = "array" -> TRUE
    [] OTHER -> value.n # 0

IsDigit(c) == c \in {"0", "1", "2", "3", "4", "5", "6", "7", "8", "9"}
DigitOf(c) ==
  CASE c = "0" -> 0 [] c = "1" -> 1 [] c = "2" -> 2 [] c = "3" -> 3 [] c = "4" -> 4
    [] c = "5" -> 5 [] c = "6" -> 6 [] c = "7" -> 7 [] c = "8" -> 8 [] c = "9" -> 9

RECURSIVE LeadingDigits(_, _)
LeadingDigits(str, acc) ==
  IF str = <<>> \/ ~IsDigit(Head(str)) THEN acc
  ELSE LeadingDigits(Tail(str), 10 * acc + DigitOf(Head(str)))

\* String(value): an array reads as its items joined by commas
StringOf(value) ==
  IF value.type = "array"
  THEN (IF value.items = <<>> THEN <<>> ELSE Join(value.items, ","))
  ELSE value.text

\* parseInt(value): the number the text starts with, NaN when it starts with
\* none
parseInt(value) ==
  LET str == TrimStart(StringOf(value))
  IN  IF value.type = "number" THEN Num(value.n)
      ELSE IF str = <<>> \/ ~IsDigit(Head(str)) THEN NaN
      ELSE Num(LeadingDigits(str, 0))

\* filter.service.js line 41: filterValue.split is no function unless the
\* value is a string; line 35-36 return before it for an ignored entry
entryThrows(filterKey, filterValue) ==
  /\ filterKey \in ALLOWED_FILTERS
  /\ truthy(filterValue)
  /\ filterValue.type # "string"

\* line 32: every() calls the entries in order and stops at the first that
\* returns false, so an entry is reached when all before it returned true
productThrows(product, attributes) ==
  \E e \in DOMAIN attributes :
    /\ entryThrows(attributes[e][1], attributes[e][2])
    /\ \A d \in 1 .. e - 1 :
         /\ ~entryThrows(attributes[d][1], attributes[d][2])
         /\ passesEntry(product, attributes[d][1], attributes[d][2].text)

\* line 89-91 and search.service.js line 225-227: the page cut with the
\* numbers parseInt made; slice reads a NaN index as 0
paginate(sortedProducts, page, per_page) ==
  IF page.kind = "num" /\ per_page.kind = "num"
  THEN slice(sortedProducts, (page.n - 1) * per_page.n,
             (page.n - 1) * per_page.n + per_page.n)
  ELSE slice(sortedProducts, 0, 0)

totalPagesOf(totalProducts, per_page) ==
  IF per_page.kind = "num" THEN MathCeilDiv(totalProducts, per_page.n) ELSE NaN

\* a TypeError leaves the async function as a rejected promise
TypeError == [status |-> "raised", error |-> "TypeError"]

\* getFilteredProducts on a query whose values keep the types they came with
getFilteredProductsOf(allProducts, queryFilters) ==
  LET attributes == queryFilters.attributes
      page == parseInt(queryFilters.page)
      per_page == parseInt(queryFilters.per_page)
      whole == getFilteredProducts(allProducts,
                 [page |-> 1, per_page |-> Len(allProducts) + 1,
                  orderby |-> queryFilters.orderby, order |-> queryFilters.order,
                  attributes |-> [e \in DOMAIN attributes |->
                                    <<attributes[e][1], attributes[e][2].text>>]])
  IN  IF \E i \in DOMAIN allProducts : productThrows(allProducts[i], attributes)
      THEN TypeError
      ELSE [status |-> "ok",
            products |-> paginate(whole.products, page, per_page),
            totalProducts |-> whole.totalProducts,
            totalPages |-> totalPagesOf(whole.totalProducts, per_page),
            page |-> page,
            per_page |-> per_page]

\* searchProducts on a query whose values keep the types they came with:
\* line 166 and 171 call trim() on q and on category outside the try block
searchProductsOf(allProducts, query) ==
  LET page == parseInt(query.page)
      per_page == parseInt(query.per_page)
      empty == [status |-> "ok", data |-> <<>>, total_products |-> 0,
                total_pages |-> Num(0), current_page |-> Num(1), per_page |-> per_page]
      whole == searchProducts(allProducts,
                 [q |-> Some(query.q.text),
                  category |-> IF truthy(query.category) THEN Some(query.category.text)
                               ELSE None,
                  page |-> 1, per_page |-> Len(allProducts) + 1])
  IN  IF ~truthy(query.q) THEN empty
      ELSE IF query.q.type # "string" THEN TypeError
      ELSE IF Len(trim(query.q.text)) = 0 THEN empty
      ELSE IF truthy(query.category) /\ query.category.type # "string" THEN TypeError
      ELSE [status |-> "ok",
            data |-> paginate(whole.data, page, per_page),
            total_products |-> whole.meta.total_products,
            total_pages |-> totalPagesOf(whole.meta.total_products, per_page),
            current_page |-> page,
            per_page |-> per_page]

\* two items, one with a colour only, one with a material and a colour
TypedPool ==
  { [EngineItem(<<"a">>, <<"a">>, <<CatT>>, Some(400))
       EXCEPT !.attributes = Some(<<[slug |-> "pa_colour", options |-> << <<"A">> >>]>>)],
    [EngineItem(<<"b">>, <<"b">>, <<CatT>>, Some(401))
       EXCEPT !.attributes = Some(<<[slug |-> "pa_material", options |-> << <<"a">> >>],
                                    [slug |-> "pa_colour", options |-> << <<"B">> >>]>>)] }

\* values a page or per_page parameter arrives with
PagingValues ==
  { NumberValue(1), StringValue(<<"1">>), StringValue(<<"2">>), StringValue(<<"x">>),
    StringValue(<<>>), ArrayValue(<< <<"1">>, <<"2">> >>) }

\* values a filter, q or category parameter arrives with
TextValues ==
  { StringValue(<<"a">>), StringValue(<<"b">>), StringValue(<<>>),
    ArrayValue(<< <<"a">>, <<"b">> >>), ArrayValue(<<>>) }

TypedAttributes ==
  {<<>>} \cup { << <<k, v>> >> : k \in {"pa_colour", "colour"}, v \in TextValues }
         \cup { << <<"pa_material", w>>, <<"pa_colour", v>> >> :
                  w \in {StringValue(<<"a">>)}, v \in TextValues }

InitTypes ==
  /\ CacheInit
  /\ SideInit
  /\ svc = NoRequest
  /\ fout = None
  /\ \/ \E c \in Catalogues(TypedPool), page \in PagingValues,
           per_page \in PagingValues, a \in TypedAttributes :
          fin = [op |-> "filter", allProducts |-> c,
                 query |-> [page |-> page, per_page |-> per_page, orderby |-> "date",
                            order |-> "desc", attributes |-> a]]
     \/ \E c \in Catalogues(TypedPool), q \in TextValues, category \in TextValues,
           page \in PagingValues, per_page \in PagingValues :
          fin = [op |-> "search", allProducts |-> c,
                 query |-> [q |-> q, category |-> category, page |-> page,
                            per_page |-> per_page]]

evalTyped ==
  /\ fout = None
  /\ fout' = Some(IF fin.op = "filter"
                  THEN getFilteredProductsOf(fin.allProducts, fin.query)
                  ELSE searchProductsOf(fin.allProducts, fin.query))
  /\ UNCHANGED <<redis, call, origin, fresh, returned, svc, fin, lineage, popular, facets,
                 options, catg, server>>

NextTypes == evalTyped

SpecTypes == InitTypes /\ [][NextTypes]_vars

----------------------------------------------------------------------------
(* The record transformer with the price fragment *)

\* the longest price_html text of the model, in characters
MaxText == 3

\* the characters of a price_html text; the entity "&pound;" counts as one
PriceAlphabet == {">", "£", "$", "&pound;", " ", "1", ".", "x"}

PriceTexts == UNION {[1 .. n -> PriceAlphabet] : n \in 0 .. MaxText}

\* (£|\$|&pound;)
IsCurrency(c) == c \in {"£", "$", "&pound;"}

\* [\d.,]
IsPriceChar(c) == IsDigit(c) \/ c \in {".", ","}

RECURSIVE skipSpaces(_, _)
\* \s* from position i: the first position at or after i that holds no space
skipSpaces(text, i) ==
  IF i <= Len(text) /\ text[i] = " " THEN skipSpaces(text, i + 1) ELSE i

RECURSIVE priceRun(_, _)
\* ([\d.,]+) from position i: the longest run of price characters there
priceRun(text, i) ==
  IF i <= Len(text) /\ IsPriceChar(text[i])
  THEN <<text[i]>> \o priceRun(text, i + 1)
  ELSE <<>>

\* the pattern />(£|\$|&pound;)?\s*([\d.,]+)/ tried at position i: its second
\* group, or None.  Without the currency sign the character after ">" would
\* have to be a space or a price character, so giving the sign back never
\* turns a failure into a match.
matchAt(text, i) ==
  IF text[i] # ">" THEN None
  ELSE LET j == IF i + 1 <= Len(text) /\ IsCurrency(text[i + 1]) THEN i + 2 ELSE i + 1
           run == priceRun(text, skipSpaces(text, j))
       IN IF run = <<>> THEN None ELSE Some(run)

\* String.prototype.match: the match at the leftmost position that has one
match(text) ==
  LET at == {i \in DOMAIN text : matchAt(text, i) # None}
  IN IF at = {} THEN None
     ELSE matchAt(text, CHOOSE i \in at : \A k \in at : i <= k)

\* the price_html of a transformed item: product.price_html?.match(...) is
\* undefined for an absent fragment, and then the result is ""
priceHtml(price_html) ==
  IF price_html = None THEN Some(<<>>)
  ELSE LET found == match(price_html[1])
       IN IF found = None THEN Some(<<>>) ELSE found

\* og_image: product.yoast_head_json?.og_image || []
ogImage(yoast_head_json) ==
  IF yoast_head_json = None THEN Some(<<>>)
  ELSE IF yoast_head_json[1].og_image = None THEN Some(<<>>)
  ELSE yoast_head_json[1].og_image

\* transformProducts with the price fragment and the social image kept in the
\* record: the projection of transformProduct and these two fields
transformPriced(product) ==
  [id |-> product.id,
   name |-> product.name,
   slug |-> product.slug,
   price |-> product.price,
   price_html |-> priceHtml(product.price_html),
   categories |-> IF product.categories = None THEN Some(<<>>) ELSE product.categories,
   yoast_head_json |-> Some([og_image |-> ogImage(product.yoast_head_json)])]

transformAllPriced(products) ==
  [i \in DOMAIN products |-> transformPriced(products[i])]

\* the upstream records of this part: one product, its price fragment absent
\* or any text, its categories and its social image absent or present
PricedProducts ==
  {[id |-> 1, name |-> <<"A", "b">>, slug |-> <<"a", "b">>, price |-> Some(7),
    price_html |-> h, categories |-> c, yoast_head_json |-> y] :
     h \in {None} \cup {Some(t) : t \in PriceTexts},
     c \in {None, Some(<<[id |-> 5, slug |-> <<"t">>]>>)},
     y \in {None, Some([og_image |-> None]), Some([og_image |-> Some(<<[url |-> "u"]>>)])}}

InitTransform ==
  /\ CacheInit
  /\ SideInit
  /\ svc = NoRequest
  /\ fout = None
  /\ \E product \in PricedProducts : fin = [op |-> "transform", products |-> <<product>>]

\* fetchAllProducts: the snapshot is the transformed upstream records
snapshotPriced ==
  /\ fout = None
  /\ fout' = Some([snapshot |-> transformAllPriced(fin.products),
                   search |-> None, filter |-> None])
  /\ UNCHANGED <<redis, call, origin, fresh, returned, svc, fin, lineage, popular, facets,
                 options, catg, server>>

\* searchProducts, its term matching the product: the page taken from the
\* snapshot is transformed again
searchPriced ==
  /\ fout # None
  /\ fout[1].search = None
  /\ fout' = Some([fout[1] EXCEPT !.search = Some(transformAllPriced(fout[1].snapshot))])
  /\ UNCHANGED <<redis, call, origin, fresh, returned, svc, fin, lineage, popular, facets,
                 options, catg, server>>

\* getFilteredProducts, no filter given: the page taken from the snapshot is
\* returned as it is
filterPriced ==
  /\ fout # None
  /\ fout[1].filter = None
  /\ fout' = Some([fout[1] EXCEPT !.filter = Some(fout[1].snapshot)])
  /\ UNCHANGED <<redis, call, origin, fresh, returned, svc, fin, lineage, popular, facets,
                 options, catg, server>>

NextTransform == snapshotPriced \/ searchPriced \/ filterPriced

SpecTransform == InitTransform /\ [][NextTransform]_vars

----------------------------------------------------------------------------
(* The snapshot store: claims C1 - C6 *)

\* C1: a fetchAllProducts call with forceRefresh = false whose read of the key
\* finds a snapshot returns exactly that snapshot (the parsed stored text) and
\* issues no upstream page request.
C1_HitReturnsStored ==
  \A p \in Procs :
    (~call[p].forceRefresh /\ call[p].read = "ok" /\ call[p].seen # None)
      => /\ call[p].pc = "done"
         /\ call[p].status = "ok"
         /\ call[p].value = JSONParse(call[p].seen[1].json)
         /\ call[p].reqs = 0

C1_Witness ==
  \E p \in Procs :
    /\ ~call[p].forceRefresh /\ call[p].read = "ok" /\ call[p].seen # None
    /\ call[p].pc = "done" /\ Len(call[p].value) = 2

\* C2 as claimed: once a fetch that ran to its end without a fault has returned
\* (whatever the catalogue held, an empty one included), a non-forced call that
\* reads the key before it expires or is deleted issues no upstream request.
C2_AsClaimed ==
  \A p \in Procs :
    (~call[p].forceRefresh /\ call[p].wasReturned) => call[p].reqs = 0

\* C2 amended: a non-forced call that finds no snapshot fetches from the
\* upstream; and once a fetch that stored a (non-empty) catalogue has returned,
\* a non-forced call that reads the key before it expires or is deleted
\* issues no upstream request.
C2_CacheAside ==
  \A p \in Procs :
    /\ (~call[p].forceRefresh /\ call[p].read = "ok" /\ call[p].seen = None)
         => call[p].reqs >= 1
    /\ (~call[p].forceRefresh /\ call[p].wasFresh)
         => (call[p].reqs = 0 /\ call[p].pc = "done")

C2_Witness ==
  \E p, q \in Procs :
    /\ ~call[p].forceRefresh /\ call[p].wasFresh /\ call[p].pc = "done"
    /\ ~call[q].forceRefresh /\ call[q].read = "ok" /\ call[q].seen = None
    /\ call[q].reqs >= 1

\* a call settles in this step, after running its fetch path without a fault
FetchEnds(p) ==
  /\ call[p].pc # "done" /\ call'[p].pc = "done"
  /\ call'[p].fault = "none" /\ call'[p].reqs > 0

\* C3 as claimed: a fetch whose page requests all succeed leaves the key
\* holding the catalogue it returns, with the 24h TTL, an empty catalogue
\* included.
C3_AsClaimed ==
  [][\A p \in Procs :
       FetchEnds(p) =>
         /\ call'[p].value = transformProducts(Concat(call'[p].trace))
         /\ redis' = Some([json |-> JSONStringify(call'[p].value), ttl |-> CACHE_TTL])]_vars

\* C3 amended: a fetch whose page requests all succeed returns the transformed
\* catalogue; when that is non-empty the key holds it right after the call,
\* with the 24h TTL, and reads back as the returned items; when it is empty
\* nothing is written and the key keeps what it held.
C3_StoresNonEmpty ==
  [][\A p \in Procs :
       FetchEnds(p) =>
         /\ call'[p].status = "ok"
         /\ call'[p].value = transformProducts(Concat(call'[p].trace))
         /\ IF call'[p].value # <<>>
            THEN /\ redis' = Some([json |-> JSONStringify(call'[p].value),
                                   ttl |-> 24 * 60 * 60])
                 /\ JSONParse(redis'[1].json) = call'[p].value
            ELSE redis' = redis]_vars

C3_Witness ==
  /\ \E p \in Procs :
       /\ call[p].pc = "done" /\ call[p].fault = "none" /\ call[p].reqs > 0
       /\ call[p].value # <<>> /\ call[p].stored
  /\ \E q \in Procs :
       /\ call[q].pc = "done" /\ call[q].fault = "none" /\ call[q].reqs > 0
       /\ call[q].value = <<>> /\ redis # None

\* C4: a step in which a page request fails writes nothing: the key holds
\* after it exactly what it held before, never the pages fetched so far.
C4_FailureWritesNothing ==
  [][\A p \in Procs :
       (call[p].pc = "fetch" /\ call'[p].fault = "upstream")
         => (redis' = redis /\ ~call'[p].stored)]_vars

C4_Witness ==
  \E p \in Procs :
    /\ call[p].fault = "upstream" /\ call[p].allProducts # <<>>
    /\ redis # None

\* C5 as claimed: a call whose page request failed ends by raising.
C5_AsClaimed ==
  \A p \in Procs :
    (call[p].pc = "done" /\ call[p].fault = "upstream") => call[p].status = "raised"

\* C5 amended: a call whose page request failed catches the error and
\* completes normally with an empty list.
C5_FailureReturnsEmpty ==
  \A p \in Procs :
    (call[p].pc = "done" /\ call[p].fault = "upstream")
      => (call[p].status = "ok" /\ call[p].value = <<>>)

C5_Witness ==
  \E p \in Procs :
    call[p].pc = "done" /\ call[p].fault = "upstream" /\ call[p].allProducts # <<>>

\* a fetch's page responses, read to the end: non-empty pages, then an empty one
CompleteFetch(t) ==
  /\ Len(t) >= 1
  /\ t[Len(t)] = <<>>
  /\ \A i \in 1 .. Len(t) - 1 : t[i] # <<>>

\* C6: the key holds nothing, or the transform of the complete page sequence
\* read by one fetch (the last writer), never a mix of two fetches or of a
\* fetch and the previous snapshot.
C6_WholesaleSnapshot ==
  redis # None =>
    /\ origin # None
    /\ CompleteFetch(origin[1])
    /\ redis[1].json = JSONStringify(transformProducts(Concat(origin[1])))

C6_Witness ==
  /\ redis # None
  /\ Len(redis[1].json) = 1
  /\ \E p \in Procs : call[p].pc = "set" /\ Len(call[p].allProducts) = 2

----------------------------------------------------------------------------
(* The query services in degraded mode: claim C7 *)

\* what a finished service call answered, by the shape of its result
ResultItems == IF svc.op = "search" THEN svc.result.data ELSE svc.result.products
ResultTotal ==
  IF svc.op = "search" THEN svc.result.meta.total_products ELSE svc.result.totalProducts
ResultPages ==
  IF svc.op = "search" THEN svc.result.meta.total_pages ELSE svc.result.totalPages
RequestPageSize ==
  IF svc.op \in {"category", "newArrivals"} THEN svc.args.perPage ELSE svc.args.per_page

\* the service call that has just finished went through a fetchAllProducts that
\* failed: at the store read, at an upstream page, or at the store write
Degraded == svc.op # "none" /\ svc.phase = "done" /\ svc.fault # "none"

----------------------------------------------------------------------------
(* The filter engine: claims C8 - C10 *)

\* the comma-separated pieces of a value, by position: value[i .. j] holds no
\* comma and is bounded by commas or the ends of the value
Pieces(value) ==
  {SubSeq(value, i, j) : <<i, j>> \in
     {ij \in (1 .. Len(value) + 1) \X (0 .. Len(value)) :
        /\ ij[1] <= ij[2] + 1
        /\ \A k \in ij[1] .. ij[2] : value[k] # ","
        /\ (ij[1] = 1 \/ value[ij[1] - 1] = ",")
        /\ (ij[2] = Len(value) \/ value[ij[2] + 1] = ",")}}

\* the requested tokens of a value: its pieces, trimmed, case-insensitive
RequestedTokens(value) == {toLowerCase(trim(piece)) : piece \in Pieces(value)}

\* an item passes a key: an option of its attribute with that slug equals a
\* requested token, lowercased or lowercased and hyphenated
ItemPassesKey(product, key, value) ==
  \E attr \in Range(product.attributes[1]) :
    /\ attr.slug = key
    /\ \E option \in Range(attr.options), token \in RequestedTokens(value) :
         \/ toLowerCase(option) = token
         \/ ReplaceSpaces(toLowerCase(option), FALSE) = token

HasAttr(product, key) == \E attr \in Range(product.attributes[1]) : attr.slug = key

\* the result is exactly the items at the positions `expected`
ReturnsExactly(result, allProducts, per_page, expected) ==
  /\ result.status = "ok"
  /\ result.totalProducts = Cardinality(expected)
  /\ Range(result.products) \subseteq {allProducts[i] : i \in expected}
  /\ Len(result.products) = Min(per_page, Cardinality(expected))

\* C8 as claimed: the result is exactly the items passing every recognized key
\* that is present in the query, whatever its value.
C8_AsClaimed ==
  fout # None =>
    LET attributes == fin.queryFilters.attributes
        expected ==
          {i \in DOMAIN fin.allProducts :
             \A e \in DOMAIN attributes :
               attributes[e][1] \in ALLOWED_FILTERS
                 => ItemPassesKey(fin.allProducts[i], attributes[e][1], attributes[e][2])}
    IN  ReturnsExactly(fout[1], fin.allProducts, fin.queryFilters.per_page, expected)

\* C8 amended: the result is exactly the items passing every recognized key
\* that is present with a non-empty value (AND across keys, OR within a key);
\* a recognized key with an empty value filters nothing.
C8_FilterSemantics ==
  fout # None =>
    LET attributes == fin.queryFilters.attributes
        expected ==
          {i \in DOMAIN fin.allProducts :
             \A e \in DOMAIN attributes :
               (attributes[e][1] \in ALLOWED_FILTERS /\ attributes[e][2] # <<>>)
                 => ItemPassesKey(fin.allProducts[i], attributes[e][1], attributes[e][2])}
    IN  ReturnsExactly(fout[1], fin.allProducts, fin.queryFilters.per_page, expected)

\* two recognized keys with values, one item passing both, one failing one
C8_Witness ==
  /\ fout # None
  /\ LET attributes == fin.queryFilters.attributes
     IN  /\ Len(attributes) >= 2
         /\ \A e \in 1 .. 2 : attributes[e][1] \in ALLOWED_FILTERS /\ attributes[e][2] # <<>>
         /\ fout[1].totalProducts = 1
         /\ \E i \in DOMAIN fin.allProducts :
              /\ ItemPassesKey(fin.allProducts[i], attributes[1][1], attributes[1][2])
              /\ ~ItemPassesKey(fin.allProducts[i], attributes[2][1], attributes[2][2])

\* the sequence without its e-th element
RemoveAt(seq, e) == SubSeq(seq, 1, e - 1) \o SubSeq(seq, e + 1, Len(seq))

\* C9: with one recognized key more in the query (any value), totalProducts is
\* not larger than for the same query without that key.
C9_FilterMonotone ==
  fout # None =>
    \A e \in DOMAIN fin.queryFilters.attributes :
      fin.queryFilters.attributes[e][1] \in ALLOWED_FILTERS
        => fout[1].totalProducts
             <= getFilteredProducts(
                  fin.allProducts,
                  [fin.queryFilters EXCEPT !.attributes = RemoveAt(@, e)]).totalProducts

\* a recognized key whose addition removes an item
C9_Witness ==
  /\ fout # None
  /\ \E e \in DOMAIN fin.queryFilters.attributes :
       /\ fin.queryFilters.attributes[e][1] \in ALLOWED_FILTERS
       /\ fout[1].totalProducts
            < getFilteredProducts(
                fin.allProducts,
                [fin.queryFilters EXCEPT !.attributes = RemoveAt(@, e)]).totalProducts

\* C10 as claimed: for a recognized key present in the query, whatever its
\* value, an item without an attribute of that slug is not in the result.
C10_AsClaimed ==
  fout # None =>
    \A e \in DOMAIN fin.queryFilters.attributes :
      fin.queryFilters.attributes[e][1] \in ALLOWED_FILTERS
        => \A i \in DOMAIN fin.allProducts :
             ~HasAttr(fin.allProducts[i], fin.queryFilters.attributes[e][1])
               => fin.allProducts[i] \notin Range(fout[1].products)

\* C10 amended: for a recognized key present with a non-empty value, an item
\* without an attribute of that slug is not in the result; a recognized key
\* with an empty value excludes nothing.
C10_MissingAttributeFails ==
  fout # None =>
    \A e \in DOMAIN fin.queryFilters.attributes :
      (/\ fin.queryFilters.attributes[e][1] \in ALLOWED_FILTERS
       /\ fin.queryFilters.attributes[e][2] # <<>>)
        => /\ \A i \in DOMAIN fin.allProducts :
                ~HasAttr(fin.allProducts[i], fin.queryFilters.attributes[e][1])
                  => fin.allProducts[i] \notin Range(fout[1].products)
           /\ fout[1].totalProducts
                <= Cardinality({i \in DOMAIN fin.allProducts :
                                  HasAttr(fin.allProducts[i],
                                          fin.queryFilters.attributes[e][1])})

\* an item without the attribute is left out while the other item is returned
C10_Witness ==
  /\ fout # None
  /\ fout[1].totalProducts = 1
  /\ Len(fout[1].products) = 1
  /\ \E e \in DOMAIN fin.queryFilters.attributes :
       /\ fin.queryFilters.attributes[e][1] \in ALLOWED_FILTERS
       /\ fin.queryFilters.attributes[e][2] # <<>>
       /\ ~HasAttr(fin.allProducts[1], fin.queryFilters.attributes[e][1])

----------------------------------------------------------------------------
(* The filter engine: claim C11 *)

----------------------------------------------------------------------------
(* The filter engine: claim C12 *)

\* C12: a request that uses a documented frontend key (material, roomType,
\* colour, finish) with a value returns only products whose mapped attribute
\* (pa_material, pa_room-type-usage, pa_colour, pa_finish) has a requested
\* option.
C12_FrontendKeysFilter ==
  fout # None =>
    \A e \in DOMAIN fin.queryFilters.attributes :
      LET key == fin.queryFilters.attributes[e][1]
          value == fin.queryFilters.attributes[e][2]
      IN  (key \in DOMAIN AttributeMapping /\ value # <<>>)
            => \A product \in Range(fout[1].products) :
                 ItemPassesKey(product, AttributeMapping[key], value)

----------------------------------------------------------------------------
(* The query modes: claims C13 - C18, under SpecEngine *)

\* the request of the state, asked for its whole listing on one page
WholeListing ==
  LET size == Len(fin.allProducts) + 1
  IN  CASE fin.op \in {"category", "newArrivals"} ->
             [fin.args EXCEPT !.page = 1, !.perPage = size]
        [] OTHER -> [fin.args EXCEPT !.page = 1, !.per_page = size]

\* the items a result carries
ItemsOf(op, result) == IF op = "search" THEN result.data ELSE result.products
TotalOf(op, result) ==
  IF op = "search" THEN result.meta.total_products ELSE result.totalProducts
PagesOf(op, result) ==
  IF op = "search" THEN result.meta.total_pages ELSE result.totalPages

\* the filtered and sorted sequence the pages of the request are cut from
FullSequence == ItemsOf(fin.op, serviceResult(fin.op, WholeListing, "ok", fin.allProducts))

\* the positions of the catalogue whose item lists the category id
MembersOf(categoryId) ==
  {i \in DOMAIN fin.allProducts :
     \E cat \in Range(fin.allProducts[i].categories[1]) : cat.id = categoryId}

\* C13: fetchProductsByCategory selects, before pagination, exactly the items
\* whose category list has an entry with the requested id, and totalProducts
\* is their number; the page it returns holds only such items.
C13_CategoryMembership ==
  (fout # None /\ fin.op = "category") =>
    LET members == MembersOf(fin.args.categoryId)
    IN  /\ fout[1].totalProducts = Cardinality(members)
        /\ Len(FullSequence) = Cardinality(members)
        /\ Range(FullSequence) = {fin.allProducts[i] : i \in members}
        /\ Range(fout[1].products) \subseteq Range(FullSequence)

\* an item of categories {5, 12} is returned for categoryId = 12 while an item
\* of category 7 is left out
C13_Witness ==
  /\ fout # None /\ fin.op = "category" /\ fin.args.categoryId = 12
  /\ fout[1].totalProducts = 1
  /\ \E product \in Range(fout[1].products) :
       {cat.id : cat \in Range(product.categories[1])} = {5, 12}
  /\ \E i \in DOMAIN fin.allProducts :
       {cat.id : cat \in Range(fin.allProducts[i].categories[1])} = {7}

\* the positions of the catalogue that a search for q, within a category when
\* one is given, matches
SearchMatches(q, category) ==
  LET term == toLowerCase(trim(q))
  IN  {i \in DOMAIN fin.allProducts :
         /\ \/ includesText(toLowerCase(fin.allProducts[i].name), term)
            \/ includesText(toLowerCase(fin.allProducts[i].slug), term)
         /\ category # None =>
              \E cat \in Range(fin.allProducts[i].categories[1]) :
                toLowerCase(cat.slug) = toLowerCase(category[1])}

Tier(name, term) ==
  IF toLowerCase(name) = term THEN 1
  ELSE IF startsWith(toLowerCase(name), term) THEN 2
  ELSE 3

\* C15: in the sequence searchProducts cuts its pages from, names equal to the
\* term come before all others, then names starting with the term before the
\* rest, and within a tier the names are in alphabetical order.
C15_RelevanceOrder ==
  (fout # None /\ fin.op = "search") =>
    LET term == toLowerCase(trim(fin.args.q[1]))
        seq == FullSequence
    IN  \A i, j \in DOMAIN seq :
          i < j =>
            /\ Tier(seq[i].name, term) <= Tier(seq[j].name, term)
            /\ Tier(seq[i].name, term) = Tier(seq[j].name, term)
                 => ComparePrimary(toLowerCase(seq[i].name), toLowerCase(seq[j].name)) <= 0

\* the catalogue "A b", "A", "b A" (for Marble Tile, Marble, White Marble)
\* searched for "a" comes out as "A", "A b", "b A"
C15_Witness ==
  /\ fout # None /\ fin.op = "search" /\ fin.args.q = Some(<<"a">>)
  /\ fin.args.category = None /\ fin.args.page = 1 /\ fin.args.per_page = 2
  /\ [i \in DOMAIN fin.allProducts |-> fin.allProducts[i].name]
       = << <<"A", " ", "b">>, <<"A">>, <<"b", " ", "A">> >>
  /\ [i \in DOMAIN FullSequence |-> FullSequence[i].name]
       = << <<"A">>, <<"A", " ", "b">>, <<"b", " ", "A">> >>
  /\ [i \in DOMAIN fout[1].data |-> fout[1].data[i].name] = << <<"A">>, <<"A", " ", "b">> >>

\* the page size and the page number of the request
SizeOf(op, args) == IF op \in {"category", "newArrivals"} THEN args.perPage ELSE args.per_page

\* the request of the state, asked for page p
OnPage(p) == [fin.args EXCEPT !.page = p]

\* the items the request of the state gets on page p
PageItems(p) == ItemsOf(fin.op, serviceResult(fin.op, OnPage(p), "ok", fin.allProducts))

\* the least number of pages of size S that hold N items
PageCount(N, S) == CHOOSE k \in 0 .. N : k * S >= N /\ (k = 0 \/ (k - 1) * S < N)

\* C16: in every query mode, for a page size S >= 1 and the filtered and
\* sorted sequence of N items, the pages 1 .. ceil(N/S) put end to end are
\* that sequence, nothing missing and nothing twice, and totalPages is
\* ceil(N/S).
C16_PaginationLaw ==
  (fout # None /\ SizeOf(fin.op, fin.args) >= 1) =>
    LET N == Len(FullSequence)
        count == PageCount(N, SizeOf(fin.op, fin.args))
    IN  /\ Concat([p \in 1 .. count |-> PageItems(p)]) = FullSequence
        /\ PagesOf(fin.op, fout[1]) = Num(count)
        /\ TotalOf(fin.op, fout[1]) = N

\* three items in pages of two: the second page holds the third item
C16_Witness ==
  /\ fout # None /\ fin.op = "category"
  /\ fin.args.perPage = 2 /\ fin.args.page = 2
  /\ Len(FullSequence) = 3
  /\ fout[1].products = <<FullSequence[3]>>
  /\ fout[1].totalPages = Num(2)

\* the page number of the request is none of 1 .. totalPages
OutOfRange ==
  LET pages == PagesOf(fin.op, fout[1])
  IN  pages.kind = "num" /\ (fin.args.page < 1 \/ fin.args.page > pages.n)

\* C17: for a page number outside 1 .. totalPages (beyond the last page, zero
\* or negative) every query mode completes normally with an empty item slice.
C17_OutOfRangeEmpty ==
  (fout # None /\ OutOfRange) =>
    /\ fout[1].status = "ok"
    /\ ItemsOf(fin.op, fout[1]) = <<>>

\* the creation days of a sequence of items
DatesOf(items) == [i \in DOMAIN items |-> items[i].date_created]

\* C18: fetchNewArrivals selects exactly the items created at or after the
\* threshold, now minus two months: an item created at the threshold is in, an
\* item created the day before is out, an item without a creation date is
\* out; the sequence is in descending order of the creation date.
C18_NewArrivalsWindow ==
  (fout # None /\ fin.op = "newArrivals") =>
    LET threshold == DayNumber(twoMonthsAgo(fin.args.now))
        expected == {i \in DOMAIN fin.allProducts :
                       /\ fin.allProducts[i].date_created # None
                       /\ fin.allProducts[i].date_created[1] >= threshold}
        seq == FullSequence
    IN  /\ fout[1].status = "ok"
        /\ fout[1].totalProducts = Cardinality(expected)
        /\ Len(seq) = Cardinality(expected)
        /\ {item.id : item \in Range(seq)} = expected
        /\ \A i, j \in DOMAIN seq :
             i < j => seq[i].date_created[1] >= seq[j].date_created[1]
        /\ Range(fout[1].products) \subseteq Range(seq)

\* on day 31 of month 3 the threshold is day 31 of month 1 (day number 396):
\* of items created on 395, 396, 397 the last two are returned, newest first
C18_Witness ==
  /\ fout # None /\ fin.op = "newArrivals"
  /\ fin.args.now = [y |-> 1, m |-> 3, d |-> 31]
  /\ fin.args.page = 1 /\ fin.args.perPage = 2
  /\ DatesOf(fin.allProducts) = <<Some(395), Some(396), Some(397)>>
  /\ DatesOf(fout[1].products) = <<Some(397), Some(396)>>
  /\ fout[1].totalProducts = 2

----------------------------------------------------------------------------
(* fetchPopularProducts: claim C19 *)

\* the first image of the upstream's record with the given id, if it has one
FirstUpstreamImage(id) ==
  LET images == PopularProduct(id).images
  IN  IF images = None \/ images[1] = <<>> THEN <<>> ELSE <<images[1][1]>>

\* C19: every result of fetchPopularProducts, fetched or read from its key,
\* has at most 12 items, and each item has at most one image, the first image
\* of the upstream's record.
C19_PopularCapped ==
  (popular.pc = "done" /\ popular.status = "ok") =>
    /\ Len(popular.value) <= 12
    /\ \A i \in DOMAIN popular.value :
         /\ Len(popular.value[i].images[1]) <= 1
         /\ popular.value[i].images[1] = FirstUpstreamImage(popular.value[i].id)

\* a result read from the key, cut from a catalogue of more than 12 products,
\* with an item whose upstream record has two images
C19_Witness ==
  /\ popular.pc = "done" /\ popular.status = "ok"
  /\ popular.read = "ok" /\ popular.seen # None
  /\ Len(popular.value) = 12
  /\ \E i \in DOMAIN popular.value :
       /\ Len(PopularProduct(popular.value[i].id).images[1]) = 2
       /\ Len(popular.value[i].images[1]) = 1

----------------------------------------------------------------------------
(* fetchFilterOptions: claim C20 *)

\* C20: when the lookup of one attribute has failed (its definition missing,
\* or its term request failing), that attribute's entry is an empty list and
\* the entry of every attribute whose terms were fetched holds the fetched
\* list.
C20_OnlyFailedEmpty ==
  (facets.pc = "done" /\ facets.failed # {}) =>
    \A slug \in Range(ATTRIBUTES) :
      /\ slug \in facets.failed => facets.value[slug] = <<>>
      /\ facets.fetched[slug] # None => facets.value[slug] = facets.fetched[slug][1]

----------------------------------------------------------------------------
(* getFilterOptions: claim C21 *)

----------------------------------------------------------------------------
(* fetchCategoryBySlug: claim C22 *)

\* the step in which fetchCategoryBySlug comes to its result
LookupSettles == catg.lk.pc # "done" /\ catg'.lk.pc = "done"

----------------------------------------------------------------------------
(* cacheAllCategoriesOnStart: claim C23 *)

\* C23: whatever pages the upstream answers with, a warm-up that has started
\* comes to its end; a page that is empty, or whose first item's id was in an
\* earlier page, ends it at once and leaves the keys as they are.
C23_WarmupTerminates ==
  /\ (catg.wu.pc # "idle") ~> (catg.wu.pc = "done")
  /\ [][\A data \in CategoryPages :
          (warmupPage(data)
             /\ (data = <<>> \/ data[1].id \in catg.wu.processedIds))
          => (catg'.wu.pc = "done" /\ catg'.store = catg.store)]_vars

\* a warm-up ended by a page that repeats an earlier page's first id, after
\* two pages were stored
C23_Witness ==
  /\ catg.wu.pc = "done"
  /\ catg.wu.status = "duplicate"
  /\ catg.wu.page = 3
  /\ catg.store["t"] # None

----------------------------------------------------------------------------
(* startServer: claim C24 *)

\* C24: when the server listens, the store has been flushed, every warm-up of
\* the rebuild has ended, and the catalogue, facet, category and popular
\* snapshots are stored.
C24_ListensOnPopulatedStore ==
  server.pc = "listening" =>
    /\ call[ServiceCall].pc = "done" /\ call[ServiceCall].forceRefresh
    /\ options.pc = "done" /\ options.forceRefresh
    /\ catg.wu.pc = "done" /\ catg.wu.forceRefresh
    /\ popular.pc = "done" /\ popular.forceRefresh
    /\ redis # None
    /\ options.store # None
    /\ \E slug \in CategorySlugs : catg.store[slug] # None
    /\ popular.store # None

----------------------------------------------------------------------------
(* fetchAllProducts: claim C25 *)

\* invocation q is a forced refresh between its first page request and the
\* end of its write
InFlightRefresh(q) == call[q].forceRefresh /\ call[q].pc \in {"fetch", "set"}

\* C25: while a forced refresh is in flight, a non-forced call whose read
\* finds a snapshot ends with that snapshot and issues no upstream request;
\* no step of the refresh leaves the key empty or other than it was unless it
\* writes a non-empty replacement; and a call waiting for its read gets past
\* it whether or not the upstream ever answers the refresh.
C25_ReadsUnaffectedByRefresh ==
  /\ [][\A p \in Procs :
          (/\ call[p].pc = "get"
           /\ call'[p].pc # "get"
           /\ call'[p].read = "ok"
           /\ redis # None
           /\ \E q \in Procs \ {p} : InFlightRefresh(q))
          => /\ call'[p].pc = "done"
             /\ call'[p].status = "ok"
             /\ call'[p].value = JSONParse(redis[1].json)
             /\ call'[p].reqs = 0]_vars
  /\ [][\A q \in Procs :
          (/\ InFlightRefresh(q)
           /\ (call'[q].pc # call[q].pc \/ call'[q].page # call[q].page))
          => \/ redis' = redis
             \/ redis' # None /\ JSONParse(redis'[1].json) # <<>>]_vars
  /\ \A p \in Procs : (call[p].pc = "get") ~> (call[p].pc # "get")

\* a forced refresh waits for its second page while a non-forced call has
\* ended with the stored snapshot
C25_Witness ==
  /\ call[1].forceRefresh
  /\ call[1].pc = "fetch"
  /\ call[1].page = 2
  /\ ~call[2].forceRefresh
  /\ call[2].pc = "done"
  /\ call[2].read = "ok"
  /\ redis # None
  /\ call[2].value = JSONParse(redis[1].json)
  /\ call[2].value # <<>>

----------------------------------------------------------------------------
(* fetchAllProducts: claim C26 *)

\* C26: the page requests of a catalogue fetch ask for pages 1, 2, 3, ... in
\* this order, each with status=publish; a fetch that ends without a fault
\* has received one response per request, the last one empty and no earlier
\* one empty, and its catalogue is the pages in the order received, joined.
C26_PagesInOrder ==
  [][\A p \in Procs :
       /\ \A i \in DOMAIN call'[p].asked :
            call'[p].asked[i] = [per_page |-> 100, page |-> i, status |-> "publish"]
       /\ FetchEnds(p) =>
            LET pages == call'[p].trace
            IN  /\ Len(pages) = Len(call'[p].asked)
                /\ pages[Len(pages)] = <<>>
                /\ \A i \in 1 .. Len(pages) - 1 : pages[i] # <<>>
                /\ call'[p].allProducts = Concat(pages)
                /\ call'[p].value = transformProducts(Concat(pages))]_vars

\* a fetch that ended after two pages of one product each and an empty third
C26_Witness ==
  \E p \in Procs :
    /\ call[p].pc = "done"
    /\ call[p].fault = "none"
    /\ Len(call[p].asked) = 3
    /\ call[p].trace = <<<<RawProduct(1)>>, <<RawProduct(2)>>, <<>>>>
    /\ call[p].value = transformProducts(<<RawProduct(1), RawProduct(2)>>)

----------------------------------------------------------------------------
(* searchProducts: claim C27 *)

\* the matched items of the search that was evaluated
MatchedItems ==
  {fin.allProducts[i] : i \in SearchMatches(fin.args.q[1], fin.args.category)}

\* C27: on the matched items of a search the relevance comparator is
\* antisymmetric (for two items a and b, compare(a, b) and compare(b, a) have
\* opposite signs, or are both zero) and transitive.
C27_ComparatorConsistent ==
  (fout # None /\ fin.op = "search") =>
    LET term == toLowerCase(trim(fin.args.q[1]))
        cmp(a, b) == Sign(searchComparator(term, a, b))
    IN  /\ \A a, b \in MatchedItems : a # b => cmp(a, b) = 0 - cmp(b, a)
        /\ \A a, b, c \in MatchedItems :
             (cmp(a, b) <= 0 /\ cmp(b, c) <= 0) => cmp(a, c) <= 0

----------------------------------------------------------------------------
(* Sort keys: claim C30 *)

\* the result of the evaluated request had it been made with this orderby
ResultWith(orderby) ==
  serviceResult(fin.op, [fin.args EXCEPT !.orderby = orderby], "ok", fin.allProducts)

\* C30 as claimed: in the category listing and in the filter endpoint, a
\* request with an orderby other than date, price and title has the result of
\* the same request with orderby=date.
C30_UnknownOrderbyIsDate ==
  (fout # None /\ fin.args.orderby \notin {"date", "price", "title"}) =>
    fout[1] = ResultWith("date")

\* C30: in the filter endpoint a request with an orderby other than date,
\* price and title has the result of the same request with orderby=date; in
\* the category listing this holds for every orderby other than date, price,
\* title and name, and orderby=name has the result of orderby=title.
C30_UnknownOrderbyIsDateButName ==
  fout # None =>
    /\ (fin.op = "filter" /\ fin.args.orderby \notin {"date", "price", "title"})
         => fout[1] = ResultWith("date")
    /\ (fin.op = "category" /\ fin.args.orderby \notin {"date", "price", "title", "name"})
         => fout[1] = ResultWith("date")
    /\ (fin.op = "category" /\ fin.args.orderby = "name")
         => fout[1] = ResultWith("title")

\* a category listing of three items by an orderby no switch names, in date
\* order, which is neither their order by title nor by price
C30_Witness ==
  /\ fout # None
  /\ fin.op = "category"
  /\ fin.args.orderby = "popularity"
  /\ fin.args.order = "asc"
  /\ Len(fout[1].products) = MaxItems
  /\ \A i \in 1 .. MaxItems - 1 :
       fout[1].products[i].date_created[1] < fout[1].products[i + 1].date_created[1]
  /\ fout[1] # ResultWith("title")
  /\ fout[1] # ResultWith("price")

----------------------------------------------------------------------------
(* Store errors in the cache-aside functions: claims C28 and C29 *)

\* C28: in fetchAllProducts, getFilterOptions and fetchPopularProducts a read
\* of the key that throws does not end the call: the function goes on to fetch
\* from the upstream and, when nothing else fails, returns what it fetched.
C28_ReadErrorIsMiss ==
  /\ (call[ServiceCall].pc = "done" /\ call[ServiceCall].read = "error") =>
       /\ call[ServiceCall].fault # "get"
       /\ call[ServiceCall].reqs >= 1
       /\ call[ServiceCall].fault = "none" =>
            /\ call[ServiceCall].status = "ok"
            /\ call[ServiceCall].value =
                 transformProducts(Concat(call[ServiceCall].trace))
  /\ (options.pc = "done" /\ options.read = "error") =>
       /\ options.fault # "get"
       /\ options.upstream # "none"
       /\ options.fault = "none" =>
            options.status = "ok" /\ options.value = options.data
  /\ (popular.pc = "done" /\ popular.read = "error") =>
       /\ popular.fault # "get"
       /\ popular.fault = "none" =>
            popular.status = "ok" /\ popular.value = popular.products

\* C29: in fetchAllProducts, getFilterOptions and fetchPopularProducts a write
\* of the key that throws after the upstream fetch leaves the call ending
\* normally with the data it fetched.
C29_WriteErrorReturnsFetched ==
  /\ (call[ServiceCall].pc = "done" /\ call[ServiceCall].fault = "set") =>
       /\ call[ServiceCall].status = "ok"
       /\ call[ServiceCall].value = transformProducts(call[ServiceCall].allProducts)
  /\ (options.pc = "done" /\ options.fault = "set") =>
       options.status = "ok" /\ options.value = options.data
  /\ (popular.pc = "done" /\ popular.fault = "set") =>
       popular.status = "ok" /\ popular.value = popular.products

----------------------------------------------------------------------------
(* Items without a date: claim C31, under SpecSort *)

\* C31: in a listing sorted by date, an item whose date_created is missing
\* stands where an item created at the epoch would: after every dated item
\* for order=desc, before every dated item for order=asc.
C31_UndatedSortsAsEpoch ==
  (fout # None /\ fin.args.orderby = "date" /\ fin.args.order \in {"asc", "desc"}) =>
    LET products == fout[1].products
    IN  \A i, j \in DOMAIN products :
          (products[i].date_created = None /\ products[j].date_created # None) =>
            IF fin.args.order = "desc" THEN j < i ELSE i < j

----------------------------------------------------------------------------
(* The order parameter in the two listings: claim C38, under SpecSort *)

\* the request of the state made to the other of the two endpoints: the same
\* catalogue, page, orderby and order, and filters every item passes
TwinRequest ==
  IF fin.op = "category"
  THEN [FilterModeInput(fin.allProducts, <<fin.args.page, fin.args.perPage>>,
                        fin.args.order, <<>>)
          EXCEPT !.args.orderby = fin.args.orderby]
  ELSE [CategoryInput(fin.allProducts, 5, <<fin.args.page, fin.args.per_page>>,
                      fin.args.order)
          EXCEPT !.args.orderby = fin.args.orderby]

TwinResult == serviceResult(TwinRequest.op, TwinRequest.args, "ok", fin.allProducts)

\* the result of the evaluated request had it been made with this order
ResultInOrder(order) ==
  serviceResult(fin.op, [fin.args EXCEPT !.order = order], "ok", fin.allProducts)

\* C38 as claimed: for the same catalogue, orderby and order, the category
\* listing and the filter endpoint return the items in the same sequence,
\* whatever the value of order.
C38_SameDirection ==
  fout # None => fout[1].products = TwinResult.products

\* C38: for order=asc and order=desc the category listing and the filter
\* endpoint return the items in the same sequence; for every other value of
\* order the category listing returns the sequence of order=asc and the
\* filter endpoint the sequence of order=desc.
C38_SameDirectionAscDesc ==
  fout # None =>
    /\ fin.args.order \in {"asc", "desc"} => fout[1].products = TwinResult.products
    /\ (fin.args.order \notin {"asc", "desc"} /\ fin.op = "category")
         => fout[1] = ResultInOrder("asc")
    /\ (fin.args.order \notin {"asc", "desc"} /\ fin.op = "filter")
         => fout[1] = ResultInOrder("desc")

\* a filter request by date with order=ASC over three items of different
\* dates, answered newest first while the category listing answers oldest
\* first
C38_Witness ==
  /\ fout # None
  /\ fin.op = "filter"
  /\ fin.args.orderby = "date"
  /\ fin.args.order = "ASC"
  /\ Len(fout[1].products) = MaxItems
  /\ \A i \in 1 .. MaxItems - 1 :
       /\ fout[1].products[i].date_created # None
       /\ fout[1].products[i + 1].date_created # None
       /\ fout[1].products[i].date_created[1] > fout[1].products[i + 1].date_created[1]
       /\ TwinResult.products[i].date_created[1]
            < TwinResult.products[i + 1].date_created[1]

----------------------------------------------------------------------------
(* Malformed parameter types: claim C32, under SpecTypes *)

\* the query of the state has a page or per_page that is no number, or a
\* filter, q or category value that is no string
Malformed ==
  \/ parseInt(fin.query.page) = NaN
  \/ parseInt(fin.query.per_page) = NaN
  \/ /\ fin.op = "filter"
     /\ \E e \in DOMAIN fin.query.attributes :
          fin.query.attributes[e][2].type # "string"
  \/ /\ fin.op = "search"
     /\ \/ fin.query.q.type # "string"
        \/ fin.query.category.type # "string"

\* C32: getFilteredProducts and searchProducts, given a page or per_page that
\* is not a number or a filter value that is not a string, raise an error and
\* return no result.
C32_MalformedRaises ==
  (fout # None /\ Malformed) => fout[1].status = "raised"

----------------------------------------------------------------------------
(* Concurrent fetches: claim C33, under SpecRace *)

\* the step is the write of invocation p
Writes(p) ==
  /\ call[p].pc = "set"
  /\ call'[p].pc = "done"
  /\ call'[p].fault = "none"

\* C33 as claimed: a write to a key that holds data never replaces it by data
\* read at an older version of the catalogue, nor by the data of a fetch that
\* started before the fetch whose data the key holds.
C33_FreshnessMonotonic ==
  [][\A p \in Procs :
       (Writes(p) /\ redis # None) =>
         /\ lineage.held[1].readAt <= call[p].readAt
         /\ lineage.held[1].startedAt <= call[p].startedAt]_vars

\* C33: the last writer wins.  Every write leaves under the key the data of
\* the fetch that wrote, whenever that fetch started and whatever version it
\* read, also when the key held the data of a fetch that started later and
\* read a newer version.
C33_LastWriterWins ==
  [][\A p \in Procs :
       Writes(p) =>
         /\ redis' = Some([json |-> JSONStringify(transformProducts(call[p].allProducts)),
                           ttl |-> CACHE_TTL])
         /\ lineage'.held = Some(TagsOf(call[p]))]_vars

\* the key holds the data of a fetch that started at version 1 and read at
\* version 1, while a fetch that started and read at version 2 has written
\* the key before it and not yet returned
C33_Witness ==
  /\ redis # None
  /\ lineage.held = Some([startedAt |-> 1, readAt |-> 1])
  /\ \E q \in Procs :
       /\ call[q].pc = "done"
       /\ call[q].stored
       /\ call[q].startedAt = MaxVersion
       /\ call[q].readAt = MaxVersion
       /\ redis[1].json # JSONStringify(call[q].value)

----------------------------------------------------------------------------
(* Termination of the page loop: claim C34, under SpecPaging *)

\* the invocation has been called and has not returned
Busy(p) == call[p].pc \in {"get", "fetch", "set"}

\* C34 as claimed: every call of fetchAllProducts whose requests are all
\* answered returns, also when the upstream answers every page number with
\* the same non-empty page.
C34_AlwaysReturns ==
  \A p \in Procs : Busy(p) ~> (call[p].pc = "done")

\* C34: every call of fetchAllProducts whose requests are all answered returns
\* when the upstream's pagination advances to an empty page; against an
\* upstream that answers every page number with the same non-empty page the
\* loop has no protection: it goes on requesting pages until a request fails.
C34_ReturnsIfPagingAdvances ==
  /\ \A p \in Procs :
       (lineage.paging = "advancing" /\ Busy(p)) ~> (call[p].pc = "done")
  /\ [][\A p \in Procs :
          (lineage.paging = "stuck" /\ call[p].pc = "fetch" /\ call'[p].pc # "fetch")
            => call'[p].fault = "upstream"]_vars

\* a fetch that has been answered the same product more often than the
\* catalogue has pages, and requests another page
C34_Witness ==
  /\ lineage.paging = "stuck"
  /\ \E p \in Procs :
       /\ call[p].pc = "fetch"
       /\ call[p].page = MaxPages + 2
       /\ Len(call[p].allProducts) = MaxPages + 1
       /\ \A i \in DOMAIN call[p].allProducts : call[p].allProducts[i].id = 1

----------------------------------------------------------------------------
(* The category keys: claim C35, under SpecCategories *)

\* the key of slug S holds nothing or a record whose slug is S
KeyHoldsOwnSlug(slug) ==
  catg.store[slug] # None => parseCategory(catg.store[slug][1].json).slug = slug

\* C35: every key category:S holds a record whose slug is S, whether the
\* warm-up or a miss of fetchCategoryBySlug wrote it, and fetchCategoryBySlug(S)
\* returns null or a record whose slug is S.
C35_KeyHoldsOwnSlug ==
  /\ \A slug \in CategorySlugs : KeyHoldsOwnSlug(slug)
  /\ (catg.lk.pc = "done" /\ catg.lk.value # None) =>
       catg.lk.value[1].slug = catg.lk.slug

----------------------------------------------------------------------------
(* The category listing after a warm-up: claim C36, under SpecIndex *)

\* fetchAllCategories has ended without a fault, and read the keys after a
\* forced warm-up had ended without an error
ListedAfterWarmup ==
  /\ catg.all.pc = "done"
  /\ catg.all.fault = "none"
  /\ catg.all.warm # None

\* the named categories of the pages that warm-up was answered with and stored
WarmedCategories ==
  {listedFields(CategoryOf(id)) :
     id \in {i \in catg.all.warm[1] : CategoryOf(i).name # ""}}

\* C36 as claimed: fetchAllCategories called after a forced warm-up has ended
\* without an error returns the named categories the upstream answered that
\* warm-up with, and no others.
C36_ListingIsWarmup ==
  ListedAfterWarmup => catg.all.value = WarmedCategories

\* C36: fetchAllCategories called after a forced warm-up has ended without an
\* error returns the named categories the upstream answered that warm-up with
\* and, besides them, what the keys of other slugs held before: no step of a
\* warm-up empties a key, so a category that is gone upstream is still
\* returned while its key lives.
C36_ListingKeepsOldEntries ==
  /\ [](ListedAfterWarmup => WarmedCategories \subseteq catg.all.value)
  /\ [][\A slug \in CategorySlugs :
          catg.store[slug] # None => catg'.store[slug] # None]_vars

\* a listing after a forced warm-up that was answered with category 2 only,
\* which returns category 1 as well
C36_Witness ==
  /\ ListedAfterWarmup
  /\ catg.all.warm[1] = {2}
  /\ catg.all.value = {listedFields(CategoryOf(1)), listedFields(CategoryOf(2))}

----------------------------------------------------------------------------
(* The facet key after a failed fetch: claim C37, under SpecOptions *)

\* C37: the facet set of an upstream fetch in which a request failed is not
\* written: the step that ends getFilterOptions' write after such a fetch
\* leaves the facet key as it was.
C37_FailedSetNotStored ==
  [][(options.pc = "set" /\ options.upstream = "failed" /\ options'.pc = "done")
       => options'.store = options.store]_vars

----------------------------------------------------------------------------
(* The transformer on its own output: claim C39, under SpecTransform *)

\* C39: transformProducts applied to the items of the snapshot returns these
\* items again, and the items searchProducts returns are equal, field for
\* field and price_html included, to the same items returned by a mode that
\* does not transform again.
C39_TransformerIdempotent ==
  fout # None =>
    /\ transformAllPriced(fout[1].snapshot) = fout[1].snapshot
    /\ (fout[1].search # None /\ fout[1].filter # None)
         => fout[1].search = fout[1].filter

====
